---- MODULE Spec2Model ----
(***************************************************************************)
(* Static-analysis pipeline of codeatlas: import resolution, code          *)
(* analysis, relationship graph and feature detection, modelled from       *)
(* server/src/services/scan.service.js, utils/relationshipBuilder.js and   *)
(* utils/featureDetector.js.  Paths and specifiers are strings; the string *)
(* functions of the code (startsWith, replace, split, path.join, the       *)
(* regular expressions) are computed character by character.               *)
(***************************************************************************)
EXTENDS Integers, Sequences, FiniteSets, TLC

VARIABLES
  rFrom,      \* resolveImportPath: fromFilePath
  rSpec,      \* resolveImportPath: importPath
  rPaths,     \* resolveImportPath: allFilePaths
  rResult,    \* resolveImportPath: the returned path, Null for null
  rPc,        \* "call" before the call, "done" after it has returned
  sProject,   \* scanProject: the files of the project directory, in the order
              \* getAllFiles lists them, each with the content read from it
  sFiles,     \* scanProject: files, the scanned file records pushed so far
  sRelationships, \* scanProject: relationships
  sHubs,      \* detectFeatures: hubs
  sFeatures,  \* detectFeatures: features, an object keyed by feature name
  sPc,        \* scanProject: the step it is at
  tStack,     \* findConnectedFiles: the calls of traverse that have not returned,
              \* the innermost last, each with its path, its depth, its outgoing
              \* edges and the edge forEach is at
  tFound,     \* findConnectedFiles: the sets connected, sharedDeps and visited
  tCalls,     \* the paths traverse was called with, in the order of the calls
  tPc,        \* "run" while findConnectedFiles runs, "returned" after it
  fInput,     \* a call of a function of the pipeline on its own: the argument
  fOutput,    \* what the call returned
  fPc,        \* "call" before the call, "done" after it has returned
  uKind,      \* an upload request: "zip" for handleZipUpload, "git" for handleGitUpload
  uPc,        \* the statement the handler is at
  uStatus,    \* the status field of the project document, Null before it exists
  uWrites,    \* the values written to the status field, in order
  uReturned,  \* the steps of the handler that have returned
  uThrown     \* the step that threw, Null when none did

resolveVars == <<rFrom, rSpec, rPaths, rResult, rPc>>
scanVars == <<sProject, sFiles, sRelationships, sHubs, sFeatures, sPc>>
traverseVars == <<tStack, tFound, tCalls, tPc>>
callVars == <<fInput, fOutput, fPc>>
uploadVars == <<uKind, uPc, uStatus, uWrites, uReturned, uThrown>>
vars == <<rFrom, rSpec, rPaths, rResult, rPc, sProject, sFiles, sRelationships, sHubs,
          sFeatures, sPc, tStack, tFound, tCalls, tPc, fInput, fOutput, fPc, uKind, uPc,
          uStatus, uWrites, uReturned, uThrown>>

(***************************************************************************)
(* Bounds of the model.                                                    *)
(***************************************************************************)
MaxResolvePaths == 4   \* project files besides the importing file (resolver)
MaxProjectFiles == 4   \* files of a scanned project

(***************************************************************************)
(* JavaScript string primitives.                                           *)
(***************************************************************************)
\* null / undefined; the empty string is falsy in the code as well
Null == ""

\* Body applied to value, value being computed once
With(value, Body(_)) == CHOOSE result \in {Body(v) : v \in {value}} : TRUE

Char(s, i) == SubSeq(s, i, i)

StartsWith(s, p) == Len(s) >= Len(p) /\ SubSeq(s, 1, Len(p)) = p

EndsWith(s, p) == Len(s) >= Len(p) /\ SubSeq(s, Len(s) - Len(p) + 1, Len(s)) = p

\* s.substring(n)
Substring(s, n) == SubSeq(s, n + 1, Len(s))

\* s.includes(p)
Includes(s, p) == \E i \in 1..(Len(s) - Len(p) + 1) : SubSeq(s, i, i + Len(p) - 1) = p

\* arr.includes(x) for a sequence
SeqIncludes(q, x) == \E i \in 1..Len(q) : q[i] = x

\* s.replace(/\\/g, '/')
RECURSIVE NormalizeSlashes(_)
NormalizeSlashes(s) ==
  IF Len(s) = 0 THEN ""
  ELSE (IF Char(s, 1) = "\\" THEN "/" ELSE Char(s, 1)) \o NormalizeSlashes(Substring(s, 1))

\* s.replace(/\/$/, '')
StripTrailingSlash(s) == IF EndsWith(s, "/") THEN SubSeq(s, 1, Len(s) - 1) ELSE s

\* s.split('/')
RECURSIVE SplitFrom(_, _, _)
SplitFrom(s, start, i) ==
  IF i > Len(s) THEN <<SubSeq(s, start, Len(s))>>
  ELSE IF Char(s, i) = "/" THEN <<SubSeq(s, start, i - 1)>> \o SplitFrom(s, i + 1, i + 1)
  ELSE SplitFrom(s, start, i + 1)

Split(s) == SplitFrom(s, 1, 1)

\* arr.join('/')
RECURSIVE Join(_)
Join(q) ==
  IF Len(q) = 0 THEN ""
  ELSE IF Len(q) = 1 THEN q[1]
  ELSE q[1] \o "/" \o Join(Tail(q))

\* position of the last '/' of s at a position >= 2, 0 when there is none
RECURSIVE LastSlashFrom(_, _)
LastSlashFrom(s, i) ==
  IF i < 2 THEN 0
  ELSE IF Char(s, i) = "/" THEN i
  ELSE LastSlashFrom(s, i - 1)

\* path.dirname(p) of a path that does not end in '/'
Dirname(p) ==
  LET k == LastSlashFrom(p, Len(p))
  IN  IF k = 0 THEN (IF StartsWith(p, "/") THEN "/" ELSE ".")
      ELSE SubSeq(p, 1, k - 1)

\* normalizeString of path.normalize: drops '' and '.', resolves '..'
RECURSIVE NormalizeSegments(_, _, _)
NormalizeSegments(segs, res, allowAboveRoot) ==
  IF Len(segs) = 0 THEN res
  ELSE LET seg == Head(segs)
           rest == Tail(segs)
       IN  IF seg = "" \/ seg = "." THEN NormalizeSegments(rest, res, allowAboveRoot)
           ELSE IF seg = ".."
             THEN IF Len(res) > 0 /\ res[Len(res)] # ".."
                    THEN NormalizeSegments(rest, SubSeq(res, 1, Len(res) - 1), allowAboveRoot)
                  ELSE IF allowAboveRoot
                    THEN NormalizeSegments(rest, Append(res, ".."), allowAboveRoot)
                  ELSE NormalizeSegments(rest, res, allowAboveRoot)
           ELSE NormalizeSegments(rest, Append(res, seg), allowAboveRoot)

\* path.normalize(p)
PathNormalize(p) ==
  IF Len(p) = 0 THEN "."
  ELSE LET isAbsolute == StartsWith(p, "/")
           trailingSeparator == EndsWith(p, "/")
           body == Join(NormalizeSegments(Split(p), <<>>, ~isAbsolute))
           dotted == IF Len(body) = 0 /\ ~isAbsolute THEN "." ELSE body
           slashed == IF Len(dotted) > 0 /\ trailingSeparator THEN dotted \o "/" ELSE dotted
       IN  IF isAbsolute THEN "/" \o slashed ELSE slashed

\* path.join(a, b)
PathJoin(a, b) ==
  IF Len(a) = 0 /\ Len(b) = 0 THEN "."
  ELSE IF Len(a) = 0 THEN PathNormalize(b)
  ELSE IF Len(b) = 0 THEN PathNormalize(a)
  ELSE PathNormalize(a \o "/" \o b)

(***************************************************************************)
(* resolveImportPath (scan.service.js).                                    *)
(***************************************************************************)
\* the extension and index lists of the alias branches
AliasExtensions == <<".ts", ".tsx", ".js", ".jsx", ".mjs", ".cjs", ".vue", ".svelte">>
AliasIndexFiles == <<"index.ts", "index.tsx", "index.js", "index.jsx">>

\* the extension and index lists of the final lookup
Extensions == <<".js", ".ts", ".jsx", ".tsx", ".mjs", ".cjs", ".json", ".vue", ".svelte">>
IndexFiles == <<"index.js", "index.ts", "index.jsx", "index.tsx", "index.mjs",
                "index.cjs", "index.json">>

\* first base \o sep \o list[i] that is a project path, Null when none is
RECURSIVE FirstWithSuffix(_, _, _, _)
FirstWithSuffix(base, sep, list, allFilePaths) ==
  IF Len(list) = 0 THEN Null
  ELSE IF (base \o sep \o Head(list)) \in allFilePaths THEN base \o sep \o Head(list)
  ELSE FirstWithSuffix(base, sep, Tail(list), allFilePaths)

\* one turn of the alias loop: exact, then extensions, then index files
AliasCandidate(candidate, allFilePaths) ==
  IF candidate \in allFilePaths THEN candidate
  ELSE LET withExt == FirstWithSuffix(candidate, "", AliasExtensions, allFilePaths)
       IN  IF withExt # Null THEN withExt
           ELSE FirstWithSuffix(candidate, "/", AliasIndexFiles, allFilePaths)

\* for (const aliasDir of aliasDirs): the first directory with a match wins
RECURSIVE AliasLoop(_, _, _)
AliasLoop(aliasDirs, aliasPath, allFilePaths) ==
  IF Len(aliasDirs) = 0 THEN Null
  ELSE LET found == AliasCandidate(Head(aliasDirs) \o "/" \o aliasPath, allFilePaths)
       IN  IF found # Null THEN found
           ELSE AliasLoop(Tail(aliasDirs), aliasPath, allFilePaths)

\* normalizedFrom.match(/^(.+?\/src)\//): group 1, Null when there is no match
RECURSIVE SrcMatchFrom(_, _)
SrcMatchFrom(normalizedFrom, k) ==
  IF k + 5 > Len(normalizedFrom) THEN Null
  ELSE IF SubSeq(normalizedFrom, k + 1, k + 5) = "/src/" THEN SubSeq(normalizedFrom, 1, k + 4)
  ELSE SrcMatchFrom(normalizedFrom, k + 1)

SrcMatch(normalizedFrom) == SrcMatchFrom(normalizedFrom, 1)

\* normalizedFrom.match(/^([^/]+)\//): group 1, Null when there is no match
RootMatch(normalizedFrom) ==
  LET parts == Split(normalizedFrom)
  IN  IF Len(parts) >= 2 /\ parts[1] # "" THEN parts[1] ELSE Null

\* push each <rootDir>/<sub> that the list does not hold yet
RECURSIVE PushRootDirs(_, _, _)
PushRootDirs(aliasDirs, rootDir, subs) ==
  IF Len(subs) = 0 THEN aliasDirs
  ELSE LET candidate == rootDir \o "/" \o Head(subs)
       IN  PushRootDirs(IF SeqIncludes(aliasDirs, candidate) THEN aliasDirs
                        ELSE Append(aliasDirs, candidate),
                        rootDir, Tail(subs))

GenericAliasDirs == <<"src", "lib", "app", "components", "utils", "pages", "routes">>

\* where the derived <prefix>/src directory is put in the list (unshift)
WithDerivedLast(derived, aliasDirs) == Append(aliasDirs, derived)
WithDerived(derived, aliasDirs) == <<derived>> \o aliasDirs

\* the candidate directories of an '@/' import
AtAliasDirs(normalizedFrom) ==
  LET srcMatch == SrcMatch(normalizedFrom)
      withSrc == IF srcMatch # Null THEN WithDerived(srcMatch, GenericAliasDirs)
                 ELSE GenericAliasDirs
      rootMatch == RootMatch(normalizedFrom)
  IN  IF rootMatch # Null THEN PushRootDirs(withSrc, rootMatch, <<"src", "lib", "app">>)
      ELSE withSrc

\* the candidate directories of a '~/' import
TildeAliasDirs(normalizedFrom) == <<"src", "lib", "app">>

\* the '@/' branch
ResolveAtAlias(importPath, normalizedFrom, allFilePaths) ==
  LET aliasPath == StripTrailingSlash(Substring(importPath, 2))
      found == AliasLoop(AtAliasDirs(normalizedFrom), aliasPath, allFilePaths)
  IN  IF found # Null THEN found
      ELSE IF aliasPath \in allFilePaths THEN aliasPath
      ELSE Null

\* the '~/' branch
ResolveTildeAlias(importPath, normalizedFrom, allFilePaths) ==
  LET aliasPath == StripTrailingSlash(Substring(importPath, 2))
  IN  AliasLoop(TildeAliasDirs(normalizedFrom), aliasPath, allFilePaths)

\* the test that sends a specifier away as an external package
IsExternalNever(importPath) == FALSE
IsExternal(importPath) ==
  /\ ~StartsWith(importPath, ".")
  /\ ~StartsWith(importPath, "/")
  /\ ~StartsWith(importPath, "@/")
  /\ ~StartsWith(importPath, "~/")

\* the last lookup: exact, then extensions, then index files
FinalLookupUnchecked(resolvedPath, allFilePaths) ==
  IF resolvedPath = Null THEN Null ELSE resolvedPath
FinalLookup(resolvedPath, allFilePaths) ==
  IF resolvedPath = Null THEN Null
  ELSE IF resolvedPath \in allFilePaths THEN resolvedPath
  ELSE LET withExt == FirstWithSuffix(resolvedPath, "", Extensions, allFilePaths)
       IN  IF withExt # Null THEN withExt
           ELSE FirstWithSuffix(resolvedPath, "/", IndexFiles, allFilePaths)

\* the relative branch
ResolveRelativeNoJoin(importPath, fromDir) == StripTrailingSlash(fromDir \o "/" \o importPath)
ResolveRelative(importPath, fromDir) == StripTrailingSlash(PathJoin(fromDir, importPath))

resolveImportPath(importPath, fromFilePath, allFilePaths) ==
  IF IsExternal(importPath) THEN Null
  ELSE LET normalizedFrom == NormalizeSlashes(fromFilePath)
           fromDir == Dirname(normalizedFrom)
           resolvedPath ==
             IF StartsWith(importPath, "@/")
               THEN ResolveAtAlias(importPath, normalizedFrom, allFilePaths)
             ELSE IF StartsWith(importPath, "~/")
               THEN ResolveTildeAlias(importPath, normalizedFrom, allFilePaths)
             ELSE IF StartsWith(importPath, "/")
               THEN StripTrailingSlash(Substring(importPath, 1))
             ELSE ResolveRelative(importPath, fromDir)
       IN  FinalLookup(resolvedPath, allFilePaths)

(***************************************************************************)
(* Characters, case and the regular-expression shapes the code uses.       *)
(***************************************************************************)
UpperLetters == "ABCDEFGHIJKLMNOPQRSTUVWXYZ"
LowerLetters == "abcdefghijklmnopqrstuvwxyz"
Digits == "0123456789"

\* position of the one-character string c in s, 0 when it is not there
RECURSIVE IndexOfChar(_, _, _)
IndexOfChar(s, c, i) ==
  IF i > Len(s) THEN 0
  ELSE IF Char(s, i) = c THEN i
  ELSE IndexOfChar(s, c, i + 1)

LowerChar(c) ==
  LET i == IndexOfChar(UpperLetters, c, 1) IN IF i = 0 THEN c ELSE Char(LowerLetters, i)

UpperChar(c) ==
  LET i == IndexOfChar(LowerLetters, c, 1) IN IF i = 0 THEN c ELSE Char(UpperLetters, i)

\* s.toLowerCase()
RECURSIVE LowerFrom(_, _)
LowerFrom(s, i) ==
  IF i > Len(s) THEN "" ELSE LowerChar(Char(s, i)) \o LowerFrom(s, i + 1)

Lower(s) == LowerFrom(s, 1)

\* \w
IsWordChar(c) ==
  \/ IndexOfChar(LowerLetters, c, 1) > 0
  \/ IndexOfChar(UpperLetters, c, 1) > 0
  \/ IndexOfChar(Digits, c, 1) > 0
  \/ c = "_"

\* [^\/]
IsNotSlash(c) == c # "/"

InClass(class, c) == IF class = "word" THEN IsWordChar(c) ELSE IsNotSlash(c)

\* s.startsWith(p, i - 1)
StartsWithAt(s, i, p) == i + Len(p) - 1 <= Len(s) /\ SubSeq(s, i, i + Len(p) - 1) = p

\* s.lastIndexOf('.') + 1, 0 when there is no dot
RECURSIVE LastDotFrom(_, _)
LastDotFrom(s, i) ==
  IF i < 1 THEN 0
  ELSE IF Char(s, i) = "." THEN i
  ELSE LastDotFrom(s, i - 1)

\* a lazy group (\w+? or [^\/]+?) at position start, followed by one of the
\* continuations: the length of the shortest match, 0 when there is none
RECURSIVE LazyLength(_, _, _, _, _)
LazyLength(s, start, n, class, continuations) ==
  IF start + n - 1 > Len(s) THEN 0
  ELSE IF ~InClass(class, Char(s, start + n - 1)) THEN 0
  ELSE IF \E c \in continuations : StartsWithAt(s, start + n, c) THEN n
  ELSE LazyLength(s, start, n + 1, class, continuations)

LazyCapture(s, start, class, continuations) ==
  LET n == LazyLength(s, start, 1, class, continuations)
  IN  IF n = 0 THEN Null ELSE SubSeq(s, start, start + n - 1)

\* (?:.*[\/])? before the lazy group: the greedy group is tried from the last
\* '/' of the string backwards, and without the group at the end
RECURSIVE GreedyThenLazy(_, _, _, _, _)
GreedyThenLazy(s, first, k, class, continuations) ==
  IF k < first THEN LazyCapture(s, first, class, continuations)
  ELSE IF Char(s, k) = "/" /\ LazyCapture(s, k + 1, class, continuations) # Null
    THEN LazyCapture(s, k + 1, class, continuations)
  ELSE GreedyThenLazy(s, first, k - 1, class, continuations)

\* the first capture of /<literal>(?:.*[\/])?(<class>+?)<continuation>/ in s,
\* the match positions tried from left to right; Null when nothing matches
RECURSIVE RegexCapture(_, _, _, _, _, _)
RegexCapture(s, i, literal, greedy, class, continuations) ==
  IF i + Len(literal) - 1 > Len(s) THEN Null
  ELSE LET first == i + Len(literal)
           here == IF ~StartsWithAt(s, i, literal) THEN Null
                   ELSE IF greedy
                     THEN GreedyThenLazy(s, first, Len(s), class, continuations)
                   ELSE LazyCapture(s, first, class, continuations)
       IN  IF here # Null THEN here
           ELSE RegexCapture(s, i + 1, literal, greedy, class, continuations)

(***************************************************************************)
(* classifyByPath (scan.service.js).                                       *)
(***************************************************************************)
Classification(t, r, c) == [type |-> t, role |-> r, category |-> c]

\* getFileExtension (ignoreFolders.js) of a file name
getFileExtension(fileName) ==
  LET dot == LastDotFrom(fileName, Len(fileName))
  IN  IF dot > 1 THEN SubSeq(fileName, dot, Len(fileName)) ELSE ""

FrontendRootNames == {"client", "frontend", "web", "app", "ui"}
BackendRootNames == {"server", "backend", "api-server"}

\* /^(name|...)\//i
RootIn(normalizedPath, names) ==
  \E name \in names :
    /\ Len(normalizedPath) > Len(name)
    /\ Lower(SubSeq(normalizedPath, 1, Len(name) + 1)) = name \o "/"

isBackendRoot(normalizedPath) == RootIn(normalizedPath, BackendRootNames)

\* a classifier that takes no root for a frontend root
NoFrontendRoot(normalizedPath) == FALSE

isFrontendRoot(normalizedPath) ==
  \/ RootIn(normalizedPath, FrontendRootNames)
  \/ (StartsWith(normalizedPath, "src/") /\ ~isBackendRoot(normalizedPath))

CONFIG_FILE_PATTERNS ==
  {"package.json", "package-lock.json", "yarn.lock", "pnpm-lock.yaml",
   "pnpm-workspace.yaml", "bun.lockb", "lerna.json", "nx.json", "turbo.json",
   "tsconfig.json", "jsconfig.json", "tsconfig.base.json", "tsconfig.app.json",
   "tsconfig.node.json", "tsconfig.test.json", "tsconfig.build.json",
   "vercel.json", "netlify.toml", "netlify.json", "firebase.json", ".firebaserc",
   "vitest.config", "vite.config", "vitest.config.", "vite.config.", "next.config",
   "nuxt.config", "nuxt.config.", "svelte.config", "angular.json", "astro.config",
   "remix.config", "tailwind.config", "postcss.config", "postcss.config.",
   "jest.config", "jest.config.", "jest.setup", "vitest.setup", "karma.conf",
   "mocha.opts", "cypress.config", "playwright.config", "webpack.config",
   "webpack.config.", "rollup.config", "rspack.config", "esbuild.config",
   "parcel.config", "babel.config", "babel.config.", ".babelrc", ".babelrc.json",
   ".babelrc.js", "eslint.config", ".eslintrc", ".eslintrc.js", ".eslintrc.json",
   ".eslintrc.yml", ".prettierrc", ".prettierrc.js", ".prettierrc.json",
   ".prettierrc.yaml", "prettier.config", "stylelint.config", ".stylelintrc",
   "commitlint.config", ".commitlintrc", "lint-staged.config", "husky", ".nvmrc",
   ".node-version", ".npmrc", ".yarnrc", ".yarnrc.yml", "docker-compose",
   "docker-compose.", "Dockerfile", ".dockerignore", "Makefile", "justfile",
   "Procfile", ".env.example", ".env.sample", ".env.template", ".editorconfig",
   ".gitignore", ".gitattributes", "renovate.json", "dependabot.yml", ".releaserc",
   "release.config"}

ScriptExts == {"js", "ts", "mjs", "cjs"}
ConfigTools ==
  {"vite", "vitest", "next", "nuxt", "tailwind", "postcss", "jest", "webpack",
   "rollup", "babel", "prettier", "eslint", "stylelint", "commitlint"}
RcNames == {"eslintrc", "prettierrc", "babelrc"}

isConfigFileName(fileName) ==
  LET lower == Lower(fileName)
  IN  \/ \E p \in CONFIG_FILE_PATTERNS : lower = p \/ StartsWith(lower, p)
      \/ \E e \in ScriptExts : EndsWith(lower, ".config." \o e)
      \/ \E rc \in RcNames :
           \/ EndsWith(lower, "." \o rc)
           \/ \E e \in {"js", "json", "yml", "yaml"} : EndsWith(lower, "." \o rc \o "." \o e)
      \/ \E t \in ConfigTools, e \in ScriptExts : lower = t \o ".config." \o e
      \/ lower \in {"docker-compose.yml", "docker-compose.yaml", "docker-compose.json"}
      \/ lower \in {".env.example", ".env.sample", ".env.template", ".nvmrc",
                    ".node-version", ".npmrc", ".yarnrc"}

isTestFileName(fileName) ==
  LET lower == Lower(fileName)
  IN  \E k \in {"test", "spec"}, e \in {"js", "jsx", "ts", "tsx", "mjs", "cjs", "vue", "svelte"} :
        EndsWith(lower, "." \o k \o "." \o e)

isDeclarationFile(fileName) == EndsWith(fileName, ".d.ts") \/ EndsWith(fileName, ".d.tsx")

NoRole == [type |-> Null, role |-> Null, category |-> Null, backendOverride |-> FALSE]
DirRole(t, r, c) == [type |-> t, role |-> r, category |-> c, backendOverride |-> FALSE]

\* the keys every JavaScript object inherits that are lower case already
InheritedKeys == {"constructor", "__proto__"}

\* DIR_ROLES[segment], NoRole for undefined; an inherited key yields an object
\* without type, role and category
DIR_ROLES(segment) ==
  CASE segment \in {"routes", "route"} -> DirRole("route", "Route definition", "backend")
    [] segment = "api" ->
         [type |-> "api-client", role |-> "API client module", category |-> "frontend",
          backendOverride |-> TRUE]
    [] segment \in {"pages", "page"} -> DirRole("page", "Page/view", "frontend")
    [] segment = "app" -> DirRole("page", "App router / page", "frontend")
    [] segment = "views" -> DirRole("page", "View template", "frontend")
    [] segment \in {"components", "component", "ui"} ->
         DirRole("component", "UI component", "frontend")
    [] segment = "widgets" -> DirRole("component", "UI widget", "frontend")
    [] segment \in {"controllers", "controller"} -> DirRole("controller", "Controller", "backend")
    [] segment \in {"services", "service"} ->
         DirRole("service", "Service / business logic", "backend")
    [] segment \in {"models", "model"} -> DirRole("model", "Data model", "backend")
    [] segment \in {"schemas", "schema"} -> DirRole("model", "Schema definition", "backend")
    [] segment \in {"middleware", "middlewares"} -> DirRole("middleware", "Middleware", "backend")
    [] segment \in {"lib", "libs"} -> DirRole("utility", "Library / shared code", "shared")
    [] segment \in {"utils", "util"} -> DirRole("utility", "Utility", "shared")
    [] segment = "helpers" -> DirRole("utility", "Helper", "shared")
    [] segment = "hooks" -> DirRole("utility", "React/hooks", "frontend")
    [] segment \in {"store", "stores"} -> DirRole("store", "State store", "frontend")
    [] segment = "providers" -> DirRole("component", "Context/provider", "frontend")
    [] segment \in {"layouts", "layout"} -> DirRole("component", "Layout", "frontend")
    [] segment \in {"types", "typings", "interfaces"} ->
         DirRole("types", "Type definitions", "shared")
    [] segment = "constants" -> DirRole("utility", "Constants", "shared")
    [] segment \in {"config", "configs"} -> DirRole("config", "Configuration", "infrastructure")
    [] segment \in {"__tests__", "test", "tests"} -> DirRole("test", "Test file", "test")
    [] segment = "__mocks__" -> DirRole("test", "Mock", "test")
    [] segment = "__fixtures__" -> DirRole("test", "Test fixture", "test")
    [] segment \in {"spec", "specs"} -> DirRole("test", "Test spec", "test")
    [] segment = "e2e" -> DirRole("test", "E2E test", "test")
    [] segment = "integration" -> DirRole("test", "Integration test", "test")
    [] segment \in {"scripts", "script"} -> DirRole("script", "Script", "infrastructure")
    [] segment = "migrations" -> DirRole("script", "Migration", "backend")
    [] segment \in {"seed", "seeds"} -> DirRole("script", "Seed data", "backend")
    [] segment = "public" -> DirRole("static", "Static asset (path)", "frontend")
    [] segment = "static" -> DirRole("static", "Static asset", "frontend")
    [] segment = "assets" -> DirRole("static", "Asset", "frontend")
    [] segment = "styles" -> DirRole("style", "Styles", "frontend")
    [] segment \in {"theme", "themes"} -> DirRole("style", "Theme", "frontend")
    [] segment \in {"docs", "documentation"} -> DirRole("docs", "Documentation", "documentation")
    [] segment = "workflows" -> DirRole("config", "CI workflow", "infrastructure")
    [] segment = "actions" -> DirRole("config", "GitHub Actions", "infrastructure")
    [] OTHER -> NoRole

\* whether DIR_ROLES[segment] is truthy
HasDirRole(segment) == DIR_ROLES(segment) # NoRole \/ segment \in InheritedKeys

BuildTools ==
  {"vite", "vitest", "next", "nuxt", "svelte", "astro", "remix", "tailwind", "postcss",
   "webpack", "rollup", "babel", "eslint", "prettier", "stylelint", "commitlint"}

\* lines 340-449: the role of a file whose name is a configuration name
ConfigClassification(fileNameLower) ==
  CASE fileNameLower = "package.json" ->
         Classification("manifest", "Package manifest", "infrastructure")
    [] fileNameLower \in {"package-lock.json", "yarn.lock", "pnpm-lock.yaml", "bun.lockb"} ->
         Classification("manifest", "Lockfile", "infrastructure")
    [] fileNameLower \in {"pnpm-workspace.yaml", "lerna.json", "nx.json", "turbo.json"} ->
         Classification("manifest", "Monorepo / workspace config", "infrastructure")
    [] \/ (StartsWith(fileNameLower, "tsconfig") /\ EndsWith(fileNameLower, ".json")
             /\ Len(fileNameLower) >= 13)
       \/ fileNameLower = "jsconfig.json" ->
         Classification("config", "TypeScript/JS project config", "infrastructure")
    [] fileNameLower \in {"vercel.json", "netlify.json", "firebase.json", "netlify.toml"} ->
         Classification("config", "Hosting/deploy config", "infrastructure")
    [] \/ \E t \in BuildTools :
            StartsWith(fileNameLower, t \o ".config.")
       \/ \E rc \in RcNames : Includes(fileNameLower, "." \o rc) ->
         Classification("config", "Build/lint config", "infrastructure")
    [] \E t \in {"jest", "vitest"}, k \in {"config", "setup"} :
            StartsWith(fileNameLower, t \o "." \o k) ->
         Classification("config", "Test runner config", "infrastructure")
    [] \E t \in {"karma", "cypress", "playwright"}, k \in {"config", "conf"} :
            StartsWith(fileNameLower, t \o "." \o k) ->
         Classification("config", "Test runner config", "infrastructure")
    [] \/ StartsWith(fileNameLower, "docker-compose.")
       \/ fileNameLower \in {"dockerfile", ".dockerignore"} ->
         Classification("config", "Docker config", "infrastructure")
    [] fileNameLower \in {"makefile", "justfile", "procfile"} ->
         Classification("script", "Build/run script", "infrastructure")
    [] fileNameLower \in {".env.example", ".env.sample", ".env.template", ".gitignore",
                          ".gitattributes", ".editorconfig", ".npmrc", ".yarnrc", ".nvmrc",
                          ".node-version"} ->
         Classification("config", "Environment/tool config", "infrastructure")
    [] OTHER -> Classification("config", "Configuration file", "infrastructure")

ENTRY_POINT_NAMES ==
  {"server.js", "server.ts", "server.mjs", "app.js", "app.ts", "app.mjs", "main.js",
   "main.ts", "main.mjs", "main.tsx", "main.jsx", "index.js", "index.ts", "index.mjs",
   "index.tsx", "index.jsx"}

CodeExts == {".js", ".jsx", ".ts", ".tsx", ".mjs", ".cjs", ".vue", ".svelte"}
StyleExts == {".css", ".scss", ".sass", ".less"}

\* the depth below which a start-up file name is an entry point (line 539)
EntryPointDepth == 3

\* lines 612-644: the extension fallbacks
ExtensionClassification(ext, inFrontend, inBackend) ==
  CASE ext \in {".vue", ".svelte"} -> Classification("component", "SFC component", "frontend")
    [] ext \in {".tsx", ".jsx"} ->
         Classification("component", "JSX/TSX module",
                        IF inBackend THEN "backend" ELSE "frontend")
    [] ext \in {".ts", ".js", ".mjs", ".cjs"} ->
         Classification("utility", "Script/module",
                        IF inBackend THEN "backend"
                        ELSE IF inFrontend THEN "frontend" ELSE "shared")
    [] ext = ".txt" -> Classification("docs", "Text file", "documentation")
    [] ext = ".xml" -> Classification("markup", "XML file", "other")
    [] OTHER -> Classification("utility", "Source file", "shared")

\* lines 565-610: the walk over the segments, the deepest one first
RECURSIVE DirectoryWalk(_, _, _, _, _)
DirectoryWalk(parts, i, ext, inFrontend, inBackend) ==
  IF i < 1 THEN ExtensionClassification(ext, inFrontend, inBackend)
  ELSE
    LET segment == Lower(parts[i])
        dirRole == DIR_ROLES(segment)
        override == dirRole.backendOverride /\ (inBackend \/ ~inFrontend)
        t == IF override THEN "route" ELSE dirRole.type
        r == IF override THEN "API route/handler" ELSE dirRole.role
        c0 == IF override THEN "backend" ELSE dirRole.category
        c == IF c0 = "shared" /\ inBackend THEN "backend"
             ELSE IF c0 = "shared" /\ inFrontend THEN "frontend"
             ELSE c0
    IN  IF HasDirRole(segment) /\ dirRole.type # "test"
             /\ \/ ext \in CodeExts
                \/ (t = "style" /\ ext \in StyleExts)
                \/ (t = "static" /\ ext \notin {".js", ".ts"})
          THEN Classification(t, r, c)
        ELSE DirectoryWalk(parts, i - 1, ext, inFrontend, inBackend)

classifyByPath(filePath) ==
  LET normalizedPath == NormalizeSlashes(filePath)
      normalizedLower == Lower(normalizedPath)
      parts == Split(normalizedPath)
      fileName == parts[Len(parts)]
      fileNameLower == Lower(fileName)
      ext == getFileExtension(fileName)
      inFrontend == isFrontendRoot(normalizedPath)
      inBackend == isBackendRoot(normalizedPath)
      testSegments == {i \in 1..Len(parts) : DIR_ROLES(Lower(parts[i])).type = "test"}
      firstTest == CHOOSE i \in testSegments : \A j \in testSegments : i <= j
  IN  CASE isConfigFileName(fileName) -> ConfigClassification(fileNameLower)
        [] isTestFileName(fileName) -> Classification("test", "Test/spec file", "test")
        [] testSegments # {} ->
             Classification("test", DIR_ROLES(Lower(parts[firstTest])).role, "test")
        [] ext \in {".html", ".htm"} -> Classification("markup", "HTML file", "frontend")
        [] ext \in StyleExts -> Classification("style", "Stylesheet", "frontend")
        [] ext = ".json" -> Classification("data", "JSON data", "infrastructure")
        [] ext \in {".yml", ".yaml", ".toml"} ->
             Classification("config",
                            IF /\ Includes(normalizedLower, "/.github/")
                               /\ \/ Includes(normalizedLower, "workflows")
                                  \/ Includes(normalizedLower, "actions")
                              THEN "CI workflow" ELSE "Configuration file",
                            "infrastructure")
        [] ext \in {".md", ".mdx"} -> Classification("docs", "Documentation", "documentation")
        [] isDeclarationFile(fileName) -> Classification("types", "Type declarations", "shared")
        [] ext \in {".graphql", ".gql"} ->
             Classification("data", "GraphQL schema/query", "backend")
        [] ext = ".prisma" -> Classification("model", "Prisma schema", "backend")
        [] ext = ".sql" -> Classification("script", "SQL script", "backend")
        [] /\ fileNameLower \in ENTRY_POINT_NAMES
           /\ Len(parts) <= EntryPointDepth
           /\ \/ inBackend
              \/ StartsWith(fileNameLower, "server.")
              \/ StartsWith(fileNameLower, "app.") ->
             Classification("entry-point", "Server entry point", "backend")
        [] /\ fileNameLower \in ENTRY_POINT_NAMES
           /\ Len(parts) <= EntryPointDepth
           /\ inFrontend ->
             Classification("entry-point", "App entry point", "frontend")
        [] OTHER -> DirectoryWalk(parts, Len(parts), ext, inFrontend, inBackend)

(***************************************************************************)
(* File contents.  The code reads a content only through regular          *)
(* expressions, so a content is what those expressions find in it: its    *)
(* import statements and route declarations in text order, and the set of *)
(* the other patterns of classifyByContent that occur in it; and what the  *)
(* export and the axios/fetch expressions of analyzeCode find, in the      *)
(* order in which analyzeCode pushes them.                                 *)
(***************************************************************************)
NoContent == [imports |-> <<>>, routes |-> <<>>, signals |-> {}, exports |-> <<>>,
              apiCalls |-> <<>>, readable |-> FALSE]
ContentWith(imports, routes, signals, exports, apiCalls) ==
  [imports |-> imports, routes |-> routes, signals |-> signals, exports |-> exports,
   apiCalls |-> apiCalls, readable |-> TRUE]
Content(imports, routes, signals) == ContentWith(imports, routes, signals, <<>>, <<>>)

\* one export found: {type, name, kind}
ExportDecl(type, name, kind) == [type |-> type, name |-> name, kind |-> kind]

\* one axios.<method>('<url>') or fetch('<url>') call found
AxiosCall(method, url) == [client |-> "axios", method |-> method, url |-> url]
FetchCall(url) == [client |-> "fetch", method |-> Null, url |-> url]

\* one route declaration: <receiver>.<method>('<path>', ...)
RouteDecl(receiver, method, path) == [receiver |-> receiver, method |-> method, path |-> path]

\* one import statement; kind names the syntactic form
ImportStmt(kind, value, default, named, namespace) ==
  [kind |-> kind, value |-> value, default |-> default, named |-> named,
   namespace |-> namespace]
Binding(imported, local) == [imported |-> imported, local |-> local]

CjsKinds == {"cjsBinding", "cjsDestructure", "cjsBare", "cjsChained"}
ScoredMethods == {"get", "post", "put", "delete", "patch", "all"}

\* whether the regular expression named by signal matches the content
Hit(content, signal) ==
  CASE signal = "dotMethodCall" ->
         \/ signal \in content.signals
         \/ \E i \in 1..Len(content.routes) : content.routes[i].method \in ScoredMethods
    [] signal \in {"routerMethod", "appMethod"} ->
         \/ signal \in content.signals
         \/ \E i \in 1..Len(content.routes) :
              /\ content.routes[i].method \in ScoredMethods
              /\ content.routes[i].receiver = (IF signal = "routerMethod" THEN "router" ELSE "app")
    [] signal = "importsReact" ->
         \/ signal \in content.signals
         \/ \E i \in 1..Len(content.imports) :
              /\ content.imports[i].kind \notin CjsKinds
              /\ content.imports[i].kind # "sideEffect"
              /\ content.imports[i].value = "react" \/ content.imports[i].default = "React"
    [] signal = "mentionsReqRes" ->
         \/ content.signals \cap {"mentionsReqRes", "reqRes", "resSend", "reqField",
                                  "asyncNamedReqRes", "reqResNext"} # {}
         \/ \E i \in 1..Len(content.imports) : content.imports[i].kind \in CjsKinds
    [] OTHER -> signal \in content.signals

Score(content, signal, points) == IF Hit(content, signal) THEN points ELSE 0

\* lines 669-768
Scores(content) ==
  [route |->
     Score(content, "dotMethodCall", 10) + Score(content, "routerMethod", 15)
     + Score(content, "appMethod", 12) + Score(content, "routerFactory", 8)
     + Score(content, "exportedHttpVerb", 12),
   controller |->
     Score(content, "reqRes", 8) + Score(content, "resSend", 5)
     + Score(content, "reqField", 3) + Score(content, "asyncNamedReqRes", 10),
   service |->
     Score(content, "serviceClass", 15) + Score(content, "injectable", 8)
     + (IF Hit(content, "asyncFunction") /\ ~Hit(content, "mentionsReqRes") THEN 5 ELSE 0)
     + Score(content, "dbCall", 3),
   model |->
     Score(content, "newSchema", 20) + Score(content, "mongooseModel", 15)
     + Score(content, "sequelizeDefine", 15) + Score(content, "ormDecorator", 15)
     + (IF Hit(content, "prismaModel") /\ Hit(content, "prismaAttribute") THEN 12 ELSE 0)
     + Score(content, "defineModel", 8),
   component |->
     Score(content, "jsxTag", 5) + Score(content, "reactHook", 8)
     + Score(content, "exportedComponentFunction", 5) + Score(content, "returnsJsx", 10)
     + Score(content, "importsReact", 3) + Score(content, "sfcBlock", 10)
     + Score(content, "svelteDirective", 8),
   page |->
     Score(content, "nextDataFunction", 15) + Score(content, "routerHook", 5)
     + Score(content, "metadataExport", 8)
     + (IF Hit(content, "loaderOrAction") /\ Hit(content, "formOrLoaderData") THEN 6 ELSE 0),
   middleware |->
     Score(content, "reqResNext", 15) + Score(content, "nextCall", 5)
     + Score(content, "matcherConfig", 10)
     + (IF Hit(content, "middlewareCall") /\ Hit(content, "nextResponseOrRedirect")
          THEN 10 ELSE 0),
   config |->
     Score(content, "defineConfig", 12) + Score(content, "moduleExportsObject", 5)
     + (IF Hit(content, "exportDefaultObject") /\ Hit(content, "under2500") THEN 4 ELSE 0)
     + (IF Hit(content, "pluginsOrResolve") /\ Hit(content, "under3000") THEN 5 ELSE 0),
   types |->
     Score(content, "declare", 15) + Score(content, "interfaceDecl", 5)
     + (IF Hit(content, "typeAlias") /\ ~Hit(content, "stateHook") THEN 3 ELSE 0),
   utility |-> 0]

\* Object.entries(scores), in the order the object literal lists them
ScoreTypes ==
  <<"route", "controller", "service", "model", "component", "page", "middleware",
    "config", "types", "utility">>

roleMap(type) ==
  CASE type = "route" -> "API route handler"
    [] type = "controller" -> "Request/response controller"
    [] type = "service" -> "Business logic service"
    [] type = "model" -> "Database model/schema"
    [] type = "component" -> "UI component"
    [] type = "page" -> "Page component"
    [] type = "middleware" -> "Middleware function"
    [] type = "config" -> "Configuration"
    [] type = "types" -> "Type definitions"
    [] OTHER -> "Utility function"

\* the score below which the content gives no classification (line 780)
ScoreFloor == 8
\* confidence is min(score / ConfidenceScale, 1) (line 796)
ConfidenceScale == 22

\* null of classifyByContent
NoContentClass == [type |-> Null, role |-> Null, confidence |-> 0]

\* lines 770-799; the confidence is kept in units of 1 / ConfidenceScale
classifyByContent(content) ==
  IF ~content.readable THEN NoContentClass
  ELSE
    With(Scores(content),
         LAMBDA scores :
           LET maxScore == CHOOSE m \in {scores[ScoreTypes[i]] : i \in 1..Len(ScoreTypes)} :
                             \A i \in 1..Len(ScoreTypes) : scores[ScoreTypes[i]] <= m
               first == CHOOSE i \in 1..Len(ScoreTypes) :
                          /\ scores[ScoreTypes[i]] = maxScore
                          /\ \A j \in 1..(i - 1) : scores[ScoreTypes[j]] < maxScore
           IN  IF maxScore >= ScoreFloor
                 THEN [type |-> ScoreTypes[first], role |-> roleMap(ScoreTypes[first]),
                       confidence |-> IF maxScore < ConfidenceScale THEN maxScore
                                      ELSE ConfidenceScale]
               ELSE NoContentClass)

\* a merge that takes every classification the content gives
ConfidentAboveFloor(contentClassification) == contentClassification # NoContentClass

\* contentClassification && contentClassification.confidence >= 0.5 (line 1776)
Confident(contentClassification) ==
  /\ contentClassification # NoContentClass
  /\ 2 * contentClassification.confidence >= ConfidenceScale

(***************************************************************************)
(* analyzeCode (scan.service.js): imports, resolved imports and routes.    *)
(***************************************************************************)
\* s.toUpperCase()
RECURSIVE Upper(_)
Upper(s) == IF Len(s) = 0 THEN "" ELSE UpperChar(Char(s, 1)) \o Upper(Substring(s, 1))

\* name.replace(/[-.](\w)/g, (_, c) => c.toUpperCase())
RECURSIVE CamelCase(_)
CamelCase(s) ==
  IF Len(s) = 0 THEN ""
  ELSE IF Len(s) >= 2 /\ Char(s, 1) \in {"-", "."} /\ IsWordChar(Char(s, 2))
    THEN UpperChar(Char(s, 2)) \o CamelCase(Substring(s, 2))
  ELSE Char(s, 1) \o CamelCase(Substring(s, 1))

\* arr.filter(Boolean) of a list of strings
NonEmpty(q) == SelectSeq(q, LAMBDA x : x # "")

StrippedExtensions == {"js", "jsx", "ts", "tsx", "mjs", "cjs", "vue", "svelte", "json"}

\* name.replace(/\.(js|jsx|ts|tsx|mjs|cjs|vue|svelte|json)$/i, '')
StripExtension(name) ==
  LET dot == LastDotFrom(name, Len(name))
  IN  IF dot > 0 /\ Lower(SubSeq(name, dot + 1, Len(name))) \in StrippedExtensions
        THEN SubSeq(name, 1, dot - 1)
      ELSE name

deriveImportName(modulePath) ==
  IF modulePath = "" THEN ""
  ELSE
    LET stripped == IF StartsWith(modulePath, "./") THEN Substring(modulePath, 2)
                    ELSE IF StartsWith(modulePath, "../") THEN Substring(modulePath, 3)
                    ELSE modulePath
        scoped == Split(stripped)
        cleaned == IF StartsWith(stripped, "@") /\ Includes(stripped, "/") /\ scoped[2] # ""
                     THEN scoped[2] ELSE stripped
        segments == NonEmpty(Split(cleaned))
        last == IF Len(segments) > 0 THEN segments[Len(segments)] ELSE cleaned
        bare == StripExtension(last)
        name == IF bare = "index" /\ Len(segments) >= 2
                  THEN segments[Len(segments) - 1] ELSE bare
    IN  CamelCase(name)

\* one entry of analysis.imports before normalisation
Entry(type, value, isTypeOnly, default, named, namespace, sideEffect) ==
  [type |-> type, value |-> value, isTypeOnly |-> isTypeOnly, default |-> default,
   named |-> named, namespace |-> namespace, sideEffect |-> sideEffect]

\* lines 1114-1119
pushResolved(resolvedImports, importPath, filePath, allFilePaths) ==
  With(resolveImportPath(importPath, filePath, allFilePaths),
       LAMBDA resolved :
         IF allFilePaths # {} /\ resolved # Null
           THEN Append(resolvedImports, resolved)
         ELSE resolvedImports)

\* the regular expressions of lines 1121-1298, in the order they are applied
ImportPasses ==
  <<"typeNamed", "typeDefault", "typeNs", "defaultNamed", "defaultNs", "named", "ns",
    "default", "sideEffect", "fallback", "cjsAssign", "cjsCall">>

\* the statement forms matched by "import ... from '<path>'" on one line
FromKinds ==
  {"typeNamed", "typeDefault", "typeNs", "defaultNamed", "defaultNs", "named", "ns",
   "default", "bracketed"}

\* whether the pass adds an entry for the statement, given the entries so far
PassTakes(pass, stmt, imports) ==
  LET sameValue == {i \in 1..Len(imports) : imports[i].value = stmt.value}
  IN  CASE pass = "default" ->
             /\ stmt.kind = "default"
             /\ ~\E i \in sameValue : imports[i].default # Null \/ imports[i].namespace # Null
        [] pass = "fallback" -> stmt.kind \in FromKinds /\ sameValue = {}
        [] pass = "cjsAssign" -> stmt.kind \in {"cjsBinding", "cjsDestructure"}
        [] pass = "cjsCall" ->
             /\ stmt.kind \in CjsKinds
             /\ ~\E i \in sameValue : imports[i].type = "cjs"
             /\ stmt.kind # "cjsChained"
        [] OTHER -> stmt.kind = pass

\* the entry the pass pushes for the statement
PassEntry(pass, stmt) ==
  CASE pass = "typeNamed" -> Entry("esm", stmt.value, TRUE, Null, stmt.named, Null, FALSE)
    [] pass = "typeDefault" -> Entry("esm", stmt.value, TRUE, stmt.default, <<>>, Null, FALSE)
    [] pass = "typeNs" -> Entry("esm", stmt.value, TRUE, Null, <<>>, stmt.namespace, FALSE)
    [] pass = "defaultNamed" ->
         Entry("esm", stmt.value, FALSE, stmt.default, stmt.named, Null, FALSE)
    [] pass = "defaultNs" ->
         Entry("esm", stmt.value, FALSE, stmt.default, <<>>, stmt.namespace, FALSE)
    [] pass = "named" -> Entry("esm", stmt.value, FALSE, Null, stmt.named, Null, FALSE)
    [] pass = "ns" -> Entry("esm", stmt.value, FALSE, Null, <<>>, stmt.namespace, FALSE)
    [] pass = "default" -> Entry("esm", stmt.value, FALSE, stmt.default, <<>>, Null, FALSE)
    [] pass = "sideEffect" -> Entry("esm", stmt.value, FALSE, Null, <<>>, Null, TRUE)
    [] pass = "fallback" -> Entry("esm", stmt.value, FALSE, Null, <<>>, Null, FALSE)
    [] pass = "cjsAssign" ->
         IF stmt.kind = "cjsDestructure"
           THEN Entry("cjs", stmt.value, FALSE, Null, stmt.named, Null, FALSE)
         ELSE Entry("cjs", stmt.value, FALSE, stmt.default, <<>>, Null, FALSE)
    [] OTHER -> Entry("cjs", stmt.value, FALSE, Null, <<>>, Null, FALSE)

\* the entries and resolved imports one pass adds for the statements from i on
RECURSIVE RunPass(_, _, _, _, _, _)
RunPass(pass, stmts, i, acc, filePath, allFilePaths) ==
  IF i > Len(stmts) THEN acc
  ELSE IF PassTakes(pass, stmts[i], acc.imports)
    THEN With([imports |-> Append(acc.imports, PassEntry(pass, stmts[i])),
               resolvedImports |->
                 pushResolved(acc.resolvedImports, stmts[i].value, filePath, allFilePaths)],
              LAMBDA next : RunPass(pass, stmts, i + 1, next, filePath, allFilePaths))
  ELSE RunPass(pass, stmts, i + 1, acc, filePath, allFilePaths)

RECURSIVE RunPasses(_, _, _, _, _)
RunPasses(p, stmts, acc, filePath, allFilePaths) ==
  IF p > Len(ImportPasses) THEN acc
  ELSE With(RunPass(ImportPasses[p], stmts, 1, acc, filePath, allFilePaths),
            LAMBDA next : RunPasses(p + 1, stmts, next, filePath, allFilePaths))

\* Array.from(new Map(q.map(x => [Key(x), x])).values()): the keys in the order
\* of their first occurrence, each with the last value stored under it
RECURSIVE MapDedupe(_, _, _)
MapDedupe(q, Key(_), i) ==
  IF i > Len(q) THEN <<>>
  ELSE IF \E j \in 1..(i - 1) : Key(q[j]) = Key(q[i]) THEN MapDedupe(q, Key, i + 1)
  ELSE LET same == {j \in i..Len(q) : Key(q[j]) = Key(q[i])}
           last == CHOOSE j \in same : \A k \in same : k <= j
       IN  <<q[last]>> \o MapDedupe(q, Key, i + 1)

\* an array kept as it is, repeated entries included
KeepAll(q) == q

\* Array.from(new Set(q)), and filtering through a Set of keys: the first
\* element of every key, in order
RECURSIVE SetDedupe(_, _, _)
SetDedupe(q, Key(_), i) ==
  IF i > Len(q) THEN <<>>
  ELSE IF \E j \in 1..(i - 1) : Key(q[j]) = Key(q[i]) THEN SetDedupe(q, Key, i + 1)
  ELSE <<q[i]>> \o SetDedupe(q, Key, i + 1)

Identity(x) == x
Unique(q) == SetDedupe(q, Identity, 1)

ImportKey(entry) == entry.type \o "|" \o entry.value

\* lines 1609-1614: the names of the named bindings
RECURSIVE NamedNames(_)
NamedNames(named) ==
  IF Len(named) = 0 THEN <<>>
  ELSE <<IF named[1].imported # named[1].local
           THEN named[1].imported \o " as " \o named[1].local
         ELSE named[1].local>> \o NamedNames(Tail(named))

\* lines 1605-1638
NormalizeImport(entry, filePath, allFilePaths) ==
  LET bound == IF entry.sideEffect THEN <<"(side-effect)">>
               ELSE (IF entry.default # Null THEN <<entry.default>> ELSE <<>>)
                    \o NamedNames(entry.named)
                    \o (IF entry.namespace # Null THEN <<"* as " \o entry.namespace>> ELSE <<>>)
      derived == deriveImportName(entry.value)
  IN  With(IF allFilePaths # {}
             THEN resolveImportPath(entry.value, filePath, allFilePaths)
           ELSE Null,
           LAMBDA resolvedPath :
             [path |-> IF resolvedPath # Null THEN resolvedPath ELSE entry.value,
              value |-> entry.value,
              type |-> entry.type,
              imported |-> IF Len(bound) = 0 /\ ~entry.sideEffect /\ derived # ""
                             THEN <<derived>> ELSE bound,
              resolvedPath |-> resolvedPath])

RECURSIVE NormalizeImports(_, _, _)
NormalizeImports(entries, filePath, allFilePaths) ==
  IF Len(entries) = 0 THEN <<>>
  ELSE <<NormalizeImport(entries[1], filePath, allFilePaths)>>
       \o NormalizeImports(Tail(entries), filePath, allFilePaths)

RouteReceivers == {"router", "app", "express"}
RouteMethods == {"get", "post", "put", "delete", "patch", "options", "head", "all"}

\* lines 1318-1331: the declarations the route pattern matches
RECURSIVE ExtractRoutes(_)
ExtractRoutes(decls) ==
  IF Len(decls) = 0 THEN <<>>
  ELSE (IF /\ \E r \in RouteReceivers : EndsWith(decls[1].receiver, r)
           /\ decls[1].method \in RouteMethods
          THEN <<[method |-> Upper(decls[1].method), path |-> decls[1].path]>>
        ELSE <<>>) \o ExtractRoutes(Tail(decls))

RouteKey(route) == route.method \o "|" \o route.path

EmptyAnalysis == [imports |-> <<>>, resolvedImports |-> <<>>, exports |-> <<>>,
                  apiCalls |-> <<>>, routes |-> <<>>, importedBy |-> <<>>]

\* lines 1300-1316: the axios calls, then the fetch calls
RECURSIVE ApiCalls(_, _)
ApiCalls(calls, client) ==
  IF Len(calls) = 0 THEN <<>>
  ELSE (IF calls[1].client # client THEN <<>>
        ELSE IF client = "axios"
          THEN <<[type |-> "axios", method |-> Upper(calls[1].method), url |-> calls[1].url]>>
        ELSE <<[type |-> "fetch", method |-> Null, url |-> calls[1].url]>>)
       \o ApiCalls(Tail(calls), client)

\* e.type + '|' + e.name + '|' + (e.kind || '')  (line 1644)
ExportKey(e) == e.type \o "|" \o e.name \o "|" \o e.kind

\* lines 1101-1651, for the fields the feature detector and the graph read
analyzeCode(content, filePath, allFilePaths) ==
  IF ~content.readable THEN EmptyAnalysis
  ELSE
    With(RunPasses(1, content.imports, [imports |-> <<>>, resolvedImports |-> <<>>],
                   filePath, allFilePaths),
         LAMBDA raw :
           [imports |-> NormalizeImports(MapDedupe(raw.imports, ImportKey, 1),
                                         filePath, allFilePaths),
            resolvedImports |-> Unique(raw.resolvedImports),
            exports |-> MapDedupe(content.exports, ExportKey, 1),
            apiCalls |-> ApiCalls(content.apiCalls, "axios")
                           \o ApiCalls(content.apiCalls, "fetch"),
            routes |-> SetDedupe(ExtractRoutes(content.routes), RouteKey, 1),
            importedBy |-> <<>>])

(***************************************************************************)
(* buildRelationshipGraph (relationshipBuilder.js).                        *)
(***************************************************************************)
LAYER_TRANSITIONS(fromType) ==
  CASE fromType = "route" -> {"controller", "service", "middleware"}
    [] fromType = "controller" -> {"service", "model", "utility"}
    [] fromType = "service" -> {"model", "utility"}
    [] fromType = "middleware" -> {"service", "utility"}
    [] fromType = "page" -> {"component", "hook", "service", "utility"}
    [] fromType = "component" -> {"component", "hook", "utility"}
    [] OTHER -> {}

Relationship(from, to, type) == [from |-> from, to |-> to, type |-> type]

\* fileTypeMap.get(path): the type of the last file with that path, Null if none
FileType(files, path) ==
  LET at == {i \in 1..Len(files) : NormalizeSlashes(files[i].path) = path}
  IN  IF at = {} THEN Null ELSE files[CHOOSE i \in at : \A j \in at : j <= i].type

\* the "imports" edges of one file, one for every entry of its import list
RECURSIVE ImportEdges(_, _)
ImportEdges(fromPath, importedFiles) ==
  IF Len(importedFiles) = 0 THEN <<>>
  ELSE <<Relationship(fromPath, importedFiles[1], "imports")>>
       \o ImportEdges(fromPath, Tail(importedFiles))

\* a builder that infers no "uses" edge
NoUsesEdges(relationships, files, file, importedFiles, i) == relationships

\* the "uses" edges of one file, added to the relationships built so far
RECURSIVE AddUsesEdges(_, _, _, _, _)
AddUsesEdges(relationships, files, file, importedFiles, i) ==
  IF i > Len(importedFiles) THEN relationships
  ELSE
    LET edge == Relationship(NormalizeSlashes(file.path), importedFiles[i], "uses")
        targetType == FileType(files, importedFiles[i])
    IN  With(IF /\ targetType # Null
                /\ targetType \in LAYER_TRANSITIONS(file.type)
                /\ ~SeqIncludes(relationships, edge)
               THEN Append(relationships, edge) ELSE relationships,
             LAMBDA next : AddUsesEdges(next, files, file, importedFiles, i + 1))

RECURSIVE BuildFrom(_, _, _)
BuildFrom(files, i, relationships) ==
  IF i > Len(files) THEN relationships
  ELSE With(AddUsesEdges(relationships
                           \o ImportEdges(NormalizeSlashes(files[i].path), files[i].imports),
                         files, files[i], files[i].imports, 1),
            LAMBDA next : BuildFrom(files, i + 1, next))

buildRelationshipGraph(files) == BuildFrom(files, 1, <<>>)

(***************************************************************************)
(* featureDetector.js: hubs and their feature names.                       *)
(***************************************************************************)
\* /\/app\/(?:.*\/)?<name>\.(<exts>)$/
AppRouterFile(path, name, exts) ==
  \E e \in exts :
    LET tail == name \o "." \o e
    IN  /\ EndsWith(path, tail)
        /\ Includes(SubSeq(path, 1, Len(path) - Len(tail)), "/app/")
        /\ Char(path, Len(path) - Len(tail)) = "/"

Hub(path, type, routes, imports) ==
  [path |-> path, type |-> type, routes |-> routes, imports |-> imports]

isController(path) == Includes(path, "/controllers/")

isPage(path) ==
  \/ /\ Includes(path, "/pages/")
     /\ EndsWith(path, ".tsx") \/ EndsWith(path, ".jsx")
     /\ ~\E n \in {"app", "document", "error"} : Includes(path, "/_" \o n \o ".")
  \/ AppRouterFile(path, "page", {"tsx", "jsx"})

isAppRoute(path) == AppRouterFile(path, "route", {"ts", "js"})

isAPIModule(path) ==
  /\ Includes(path, "/api/")
  /\ \/ Includes(path, "client/")
     \/ Includes(path, "frontend/")
     \/ Includes(path, "src/api/")
     \/ Includes(path, "/app/api/")
  /\ ~\E e \in {"ts", "js", "tsx", "jsx"} : EndsWith(path, "index." \o e)
  /\ ~isAppRoute(path)

\* a detector for which no file is a route handler
NoRouteHandler(file) == FALSE

isRouteHandler(file) ==
  \/ (file.type = "route" /\ Len(file.routes) > 0)
  \/ Includes(file.path, "/routes/")
  \/ isAppRoute(file.path)

RECURSIVE identifyHubs(_)
identifyHubs(files) ==
  IF Len(files) = 0 THEN <<>>
  ELSE
    LET file == files[1]
        path == file.path
        type == IF isController(path) THEN "controller"
                ELSE IF isPage(path) THEN "page"
                ELSE IF isAPIModule(path) THEN "api"
                ELSE "route"
    IN  (IF isController(path) \/ isPage(path) \/ isAPIModule(path) \/ isRouteHandler(file)
           THEN <<Hub(path, type, file.routes, file.imports)>>
         ELSE <<>>) \o identifyHubs(Tail(files))

AppRouterNames == {"page", "route", "layout", "loading", "error", "not-found"}

\* s.replace(/^\(|\)$/g, '')
StripParens(s) ==
  LET open == IF StartsWith(s, "(") THEN Substring(s, 1) ELSE s
  IN  IF EndsWith(open, ")") THEN SubSeq(open, 1, Len(open) - 1) ELSE open

\* lines 89-138; the patterns ignore case and every transform lower-cases, so
\* they are matched against the lower-cased path
extractFeatureName(path) ==
  With(Lower(path),
       LAMBDA lower :
         LET controller == RegexCapture(lower, 1, "controllers/", FALSE, "word",
                                        {"controller."})
             appRouter == RegexCapture(lower, 1, "app/", TRUE, "notslash",
                                       {"/" \o n \o "." \o e :
                                          n \in AppRouterNames, e \in {"ts", "js"}})
             pagesIndex == RegexCapture(lower, 1, "pages/", TRUE, "notslash",
                                        {"/index.tsx", "/index.jsx"})
             pages == RegexCapture(lower, 1, "pages/", TRUE, "word", {".tsx", ".jsx"})
             api == RegexCapture(lower, 1, "api/", FALSE, "word", {".ts", ".js"})
             routes == RegexCapture(lower, 1, "routes/", FALSE, "word",
                                    {"routes.js", "routes.ts", "route.js", "route.ts",
                                     ".js", ".ts"})
         IN  IF controller # Null THEN controller
             ELSE IF appRouter # Null THEN StripParens(appRouter)
             ELSE IF pagesIndex # Null THEN pagesIndex
             ELSE IF pages # Null THEN pages
             ELSE IF api # Null THEN api
             ELSE routes)

\* a detector without synonyms
NoRelationship(featureName) == featureName

detectFeatureRelationships(featureName) ==
  CASE featureName \in {"login", "register", "signup", "signin", "verify", "forgotpassword",
                        "verifyforgotpassword", "resetpassword"} -> "auth"
    [] featureName \in {"home", "overview"} -> "dashboard"
    [] featureName \in {"insight", "analytics", "stats"} -> "insights"
    [] OTHER -> featureName

\* name.slice(0, -n)
DropLast(name, n) == SubSeq(name, 1, Len(name) - n)

normalizePluralSingular(name) ==
  CASE name = "people" -> "person"
    [] name = "children" -> "child"
    [] name = "mice" -> "mouse"
    [] name = "men" -> "man"
    [] name = "women" -> "woman"
    [] name \in {"data", "media"} -> name
    [] EndsWith(name, "ies") /\ Len(name) > 4 -> DropLast(name, 3) \o "y"
    [] /\ \E e \in {"ses", "xes", "zes", "ches", "shes"} : EndsWith(name, e)
       /\ Len(name) > 4
       /\ ~(EndsWith(name, "ies") /\ Len(name) > 4) -> DropLast(name, 2)
    [] /\ EndsWith(name, "s") /\ ~EndsWith(name, "ss") /\ ~EndsWith(name, "us")
       /\ Len(name) > 3
       /\ ~(EndsWith(name, "ies") /\ Len(name) > 4)
       /\ ~(\E e \in {"ses", "xes", "zes", "ches", "shes"} : EndsWith(name, e) /\ Len(name) > 4) ->
         DropLast(name, 1)
    [] OTHER -> name

Vowels == {"a", "e", "i", "o", "u"}

toPlural(singular) ==
  IF /\ EndsWith(singular, "y")
     /\ ~(Len(singular) >= 2 /\ Char(singular, Len(singular) - 1) \in Vowels)
    THEN DropLast(singular, 1) \o "ies"
  ELSE IF \E e \in {"s", "x", "z", "ch", "sh"} : EndsWith(singular, e)
    THEN singular \o "es"
  ELSE singular \o "s"

(***************************************************************************)
(* groupHubsByFeature.  A JavaScript object is the sequence of its         *)
(* [key, value] entries in insertion order.                                *)
(***************************************************************************)
ObjHas(obj, key) == \E i \in 1..Len(obj) : obj[i].key = key
ObjIndex(obj, key) == CHOOSE i \in 1..Len(obj) : obj[i].key = key
ObjGet(obj, key) == obj[ObjIndex(obj, key)].value
\* obj[key] = value
ObjSet(obj, key, value) ==
  IF ObjHas(obj, key) THEN [obj EXCEPT ![ObjIndex(obj, key)].value = value]
  ELSE Append(obj, [key |-> key, value |-> value])
\* delete obj[key]
ObjDelete(obj, key) == SelectSeq(obj, LAMBDA e : e.key # key)

Feature(name, hubs) == [name |-> name, hubs |-> hubs]

\* lines 266-294: a hub of a known canonical name added to the features and
\* the name frequencies
GroupNamed(hub, acc, canonicalName, singular, plural) ==
  LET freqs == IF ObjHas(acc.nameFrequency, singular)
                 THEN ObjGet(acc.nameFrequency, singular) ELSE <<>>
      count == IF ObjHas(freqs, canonicalName) THEN ObjGet(freqs, canonicalName) ELSE 0
      rekeyed == IF ~ObjHas(acc.features, singular) /\ ObjHas(acc.features, plural)
                   THEN ObjDelete(ObjSet(acc.features, singular, ObjGet(acc.features, plural)),
                                  plural)
                 ELSE acc.features
  IN  With(IF ObjHas(rekeyed, singular) THEN rekeyed
           ELSE ObjSet(rekeyed, singular, Feature(singular, <<>>)),
           LAMBDA present :
             [features |->
                ObjSet(present, singular,
                       [ObjGet(present, singular) EXCEPT !.hubs = Append(@, hub)]),
              nameFrequency |->
                ObjSet(acc.nameFrequency, singular, ObjSet(freqs, canonicalName, count + 1))])

\* lines 251-295: one hub added to the features and the name frequencies
GroupHub(hub, acc) ==
  With(extractFeatureName(hub.path),
       LAMBDA featureName :
         IF featureName = Null THEN acc
         ELSE With(detectFeatureRelationships(featureName),
                   LAMBDA canonicalName :
                     With(normalizePluralSingular(canonicalName),
                          LAMBDA singular :
                            GroupNamed(hub, acc, canonicalName, singular,
                                       toPlural(singular)))))

RECURSIVE GroupHubs(_, _)
GroupHubs(hubs, acc) ==
  IF Len(hubs) = 0 THEN acc
  ELSE With(GroupHub(hubs[1], acc), LAMBDA next : GroupHubs(Tail(hubs), next))

\* lines 303-313: the first name of the highest frequency
BestName(singularKey, freqs) ==
  IF Len(freqs) = 0 THEN singularKey
  ELSE LET best == CHOOSE i \in 1..Len(freqs) :
                     /\ \A j \in 1..Len(freqs) : freqs[j].value <= freqs[i].value
                     /\ \A j \in 1..(i - 1) : freqs[j].value < freqs[i].value
       IN  freqs[best].key

RECURSIVE Rename(_, _, _)
Rename(features, nameFrequency, renamed) ==
  IF Len(features) = 0 THEN renamed
  ELSE
    LET singularKey == features[1].key
        freqs == IF ObjHas(nameFrequency, singularKey)
                   THEN ObjGet(nameFrequency, singularKey) ELSE <<>>
    IN  With(BestName(singularKey, freqs),
             LAMBDA bestName :
               With(ObjSet(renamed, bestName, [features[1].value EXCEPT !.name = bestName]),
                    LAMBDA next : Rename(Tail(features), nameFrequency, next)))

\* whether groupHubsByFeature throws: for a name that is a key every object
\* inherits, relationships[featureName] (line 170) is a function or an object,
\* and name.endsWith (line 192) is not a function
groupingThrows(hubs) ==
  \E i \in 1..Len(hubs) : extractFeatureName(hubs[i].path) \in InheritedKeys

groupHubsByFeature(hubs) ==
  With(GroupHubs(hubs, [features |-> <<>>, nameFrequency |-> <<>>]),
       LAMBDA grouped : Rename(grouped.features, grouped.nameFrequency, <<>>))

(***************************************************************************)
(* findConnectedFiles and expandFeatures.                                  *)
(***************************************************************************)
\* a traversal that treats no file as shared infrastructure
NothingShared(filePath) == FALSE

\* SHARED_INFRA_PATTERNS, lines 332-344
isSharedInfrastructure(filePath) ==
  With(Lower(filePath),
       LAMBDA lower :
         \/ Includes(lower, "/components/ui/")
         \/ \E e \in {"ts", "js", "tsx", "jsx"} :
              EndsWith(lower, "/lib/utils." \o e) \/ EndsWith(lower, "/api/index." \o e))

\* the depth to which expandFeatures asks findConnectedFiles to go (line 447)
maxDepth == 2

RECURSIVE RelationshipTargets(_, _)
RelationshipTargets(relationships, path) ==
  IF Len(relationships) = 0 THEN <<>>
  ELSE (IF relationships[1].from = path THEN <<relationships[1].to>> ELSE <<>>)
       \o RelationshipTargets(Tail(relationships), path)

\* lines 372-391: the outgoing edges of a file, as the Set iterates them
Outgoing(path, relationships, files) ==
  LET at == {i \in 1..Len(files) : files[i].path = path}
      file == files[CHOOSE i \in at : \A j \in at : i <= j]
  IN  Unique(RelationshipTargets(relationships, path)
             \o (IF at = {} THEN <<>> ELSE file.imports))

RECURSIVE traverse(_, _, _, _, _, _)
RECURSIVE ProcessOutgoing(_, _, _, _, _, _, _)
\* lines 365-407; found holds the sets connected, sharedDeps and visited
traverse(path, depth, found, relationships, files, depthLimit) ==
  IF depth > depthLimit \/ path \in found.visited THEN found
  ELSE With(Outgoing(path, relationships, files),
            LAMBDA outgoing :
              ProcessOutgoing(outgoing, 1, depth, [found EXCEPT !.visited = @ \cup {path}],
                              relationships, files, depthLimit))

\* lines 394-406: outgoing.forEach
ProcessOutgoing(outgoing, i, depth, found, relationships, files, depthLimit) ==
  IF i > Len(outgoing) THEN found
  ELSE
    LET targetPath == outgoing[i]
    IN  With(IF \/ SeqIncludes(found.connected, targetPath)
                \/ SeqIncludes(found.sharedDeps, targetPath)
               THEN found
             ELSE IF isSharedInfrastructure(targetPath)
               THEN [found EXCEPT !.sharedDeps = Append(@, targetPath)]
             ELSE traverse(targetPath, depth + 1,
                           [found EXCEPT !.connected = Append(@, targetPath)],
                           relationships, files, depthLimit),
             LAMBDA next :
               ProcessOutgoing(outgoing, i + 1, depth, next, relationships, files, depthLimit))

findConnectedFiles(hubPath, relationships, files, depthLimit) ==
  With(traverse(hubPath, 0,
                [connected |-> <<hubPath>>, sharedDeps |-> <<>>, visited |-> {}],
                relationships, files, depthLimit),
       LAMBDA found : [files |-> found.connected, sharedDeps |-> found.sharedDeps])

\* /^(.+\/components\/[^/]+)\//: the components/<subdir> prefix of the path,
\* Null when there is none
SiblingDir(filePath) ==
  LET SegmentEnd(i) ==
        CHOOSE j \in (i + 12)..Len(filePath) :
          /\ Char(filePath, j) = "/"
          /\ \A k \in (i + 12)..(j - 1) : Char(filePath, k) # "/"
      starts == {i \in 2..Len(filePath) :
                   /\ StartsWithAt(filePath, i, "/components/")
                   /\ \E j \in (i + 13)..Len(filePath) :
                        /\ Char(filePath, j) = "/"
                        /\ \A k \in (i + 12)..(j - 1) : Char(filePath, k) # "/"}
      last == CHOOSE i \in starts : \A j \in starts : j <= i
  IN  IF starts = {} THEN Null ELSE SubSeq(filePath, 1, SegmentEnd(last) - 1)

\* lines 438-449: the union of findConnectedFiles over the hubs of a feature
RECURSIVE ConnectHubs(_, _, _, _)
ConnectHubs(featureHubs, relationships, files, acc) ==
  IF Len(featureHubs) = 0 THEN acc
  ELSE
    With(findConnectedFiles(featureHubs[1].path, relationships, files, maxDepth),
         LAMBDA found :
           With([allConnected |-> Unique(acc.allConnected \o found.files),
                 allSharedDeps |-> Unique(acc.allSharedDeps \o found.sharedDeps)],
                LAMBDA next : ConnectHubs(Tail(featureHubs), relationships, files, next)))

\* lines 458-468: the sibling directories of the connected files
RECURSIVE SiblingDirs(_)
SiblingDirs(paths) ==
  IF Len(paths) = 0 THEN <<>>
  ELSE LET dir == SiblingDir(paths[1])
       IN  (IF dir # Null /\ ~EndsWith(Lower(dir), "/components/ui") THEN <<dir>> ELSE <<>>)
           \o SiblingDirs(Tail(paths))

\* lines 469-478: the files of the sibling directories, in the order of files
RECURSIVE Siblings(_, _)
Siblings(files, dirs) ==
  IF Len(files) = 0 THEN <<>>
  ELSE (IF \E d \in 1..Len(dirs) : StartsWith(files[1].path, dirs[d] \o "/")
          THEN <<files[1].path>> ELSE <<>>) \o Siblings(Tail(files), dirs)

RECURSIVE ApiRoutes(_)
ApiRoutes(featureHubs) ==
  IF Len(featureHubs) = 0 THEN <<>>
  ELSE featureHubs[1].routes \o ApiRoutes(Tail(featureHubs))

\* an expansion that keeps the files the hubs reach, without the hubs
ExpandFeatureOfImports(feature, relationships, files) ==
  With(ConnectHubs(feature.hubs, relationships, files,
                   [allConnected |-> <<>>, allSharedDeps |-> <<>>]),
       LAMBDA found :
         With(SelectSeq(found.allConnected,
                        LAMBDA path : \A h \in 1..Len(feature.hubs) :
                                        feature.hubs[h].path # path),
              LAMBDA allFiles :
                [name |-> feature.name,
                 hubs |-> feature.hubs,
                 allFiles |-> allFiles,
                 fileCount |-> Len(allFiles),
                 sharedDependencies |-> found.allSharedDeps,
                 apiRoutes |-> ApiRoutes(feature.hubs)]))

\* lines 421-545 for one feature (the categorized buckets are not modelled)
ExpandFeature(feature, relationships, files) ==
  With(ConnectHubs(feature.hubs, relationships, files,
                   [allConnected |-> <<>>, allSharedDeps |-> <<>>]),
       LAMBDA found :
         With(Unique(found.allConnected
                     \o Siblings(files, Unique(SiblingDirs(found.allConnected)))),
              LAMBDA allFiles :
                [name |-> feature.name,
                 hubs |-> feature.hubs,
                 allFiles |-> allFiles,
                 fileCount |-> Len(allFiles),
                 sharedDependencies |-> found.allSharedDeps,
                 apiRoutes |-> ApiRoutes(feature.hubs)]))

RECURSIVE expandFeatures(_, _, _)
expandFeatures(features, relationships, files) ==
  IF Len(features) = 0 THEN <<>>
  ELSE <<[key |-> features[1].key,
          value |-> ExpandFeature(features[1].value, relationships, files)]>>
       \o expandFeatures(Tail(features), relationships, files)

(***************************************************************************)
(* scanProject (scan.service.js) as a state machine.                       *)
(***************************************************************************)
Require(value, binding) == ImportStmt("cjsBinding", value, binding, <<>>, Null)
ImportDefault(value, default) == ImportStmt("default", value, default, <<>>, Null)
ImportNamed(value, imported) ==
  ImportStmt("named", value, Null, <<Binding(imported, imported)>>, Null)

\* a file on disk: its relative path, its text, its size in bytes and
\* whether fs.stat and fs.readFile succeed on it
DiskFile(path, content, size, canRead) ==
  [path |-> path, content |-> content, size |-> size, canRead |-> canRead]
File(path, content) == DiskFile(path, content, 2048, TRUE)

\* lines 19, 55-66
MAX_FILE_SIZE == 1024 * 1024

\* a reader that returns the text of every file
readAnyFile(file) == file.content

readFileContent(file) ==
  IF ~file.canRead \/ file.size > MAX_FILE_SIZE THEN NoContent ELSE file.content

\* the files a project is drawn from, each with its content
ProjectUniverse ==
  <<File("server/routes/authRoutes.js",
         Content(<<Require("express", "express"),
                   Require("../controllers/authController", "authController")>>,
                 <<RouteDecl("router", "post", "/login"),
                   RouteDecl("router", "post", "/register"),
                   RouteDecl("router", "post", "/login")>>,
                 {"routerFactory"})),
    File("server/controllers/authController.js",
         Content(<<Require("../services/authService", "authService")>>, <<>>,
                 {"reqRes", "resSend", "reqField"})),
    File("server/services/authService.js",
         Content(<<Require("../models/User", "User")>>, <<>>, {"asyncFunction", "dbCall"})),
    File("server/models/User.js",
         Content(<<Require("mongoose", "mongoose")>>, <<>>, {"newSchema", "mongooseModel"})),
    File("server/routes/budgets.js",
         Content(<<ImportStmt("cjsDestructure", "../controllers/budgetController", Null,
                              <<Binding("getBudgets", "getBudgets")>>, Null)>>,
                 <<RouteDecl("router", "get", "/"), RouteDecl("router", "post", "/")>>,
                 {"routerFactory"})),
    File("server/routes/api/index.js",
         Content(<<Require("express", "express"),
                   ImportStmt("cjsBare", "../authRoutes", Null, <<>>, Null)>>,
                 <<RouteDecl("router", "use", "/auth")>>,
                 {"routerFactory"})),
    File("client/src/pages/Budget.tsx",
         Content(<<ImportDefault("react", "React"),
                   ImportNamed("@/api/budgets", "getBudgets"),
                   ImportNamed("../api/budgets", "createBudget"),
                   ImportNamed("../components/ui/button", "Button"),
                   ImportNamed("@/lib/utils", "cn")>>,
                 <<>>,
                 {"jsxTag", "reactHook", "exportedComponentFunction", "returnsJsx"})),
    File("client/src/pages/Login.tsx",
         Content(<<ImportNamed("../api/auth", "login"), ImportNamed("@/lib/utils", "cn")>>,
                 <<>>,
                 {"jsxTag", "exportedComponentFunction", "returnsJsx", "routerHook"})),
    File("client/src/pages/Foo.tsx",
         Content(<<ImportStmt("defaultNamed", "../utils/foo", "Foo",
                              <<Binding("bar", "baz")>>, Null)>>,
                 <<>>, {"jsxTag", "returnsJsx"})),
    File("client/src/api/budgets.ts",
         Content(<<ImportDefault("./index", "api")>>, <<>>, {"dotMethodCall"})),
    File("client/src/api/index.ts",
         Content(<<ImportDefault("axios", "axios")>>, <<>>, {})),
    File("client/src/components/ui/button.tsx",
         Content(<<ImportStmt("ns", "react", Null, <<>>, "React"),
                   ImportNamed("@/lib/utils", "cn")>>,
                 <<>>, {"jsxTag", "returnsJsx"})),
    File("client/src/utils/foo.ts", Content(<<>>, <<>>, {"typeAlias"})),
    File("client/src/utils/foo.js", Content(<<>>, <<>>, {}))>>

\* no function is called on its own
CallIdle == fInput = <<>> /\ fOutput = <<>> /\ fPc = "idle"

\* no upload request is running
UploadIdle ==
  /\ uKind = "none"
  /\ uPc = "idle"
  /\ uStatus = ""
  /\ uWrites = <<>>
  /\ uReturned = {}
  /\ uThrown = ""

\* findConnectedFiles is not running
TraverseIdle ==
  /\ tStack = <<>>
  /\ tFound = [connected |-> <<>>, sharedDeps |-> <<>>, visited |-> {}]
  /\ tCalls = <<>>
  /\ tPc = "idle"

\* the files of the universe with an index in chosen, in the order of the
\* universe or in the reverse order
RECURSIVE Listing(_, _, _, _)
Listing(universe, chosen, reversed, i) ==
  IF i > Len(universe) THEN <<>>
  ELSE LET k == IF reversed THEN Len(universe) + 1 - i ELSE i
       IN  (IF k \in chosen THEN <<universe[k]>> ELSE <<>>)
           \o Listing(universe, chosen, reversed, i + 1)

\* normalizedFilePaths (lines 1753-1755)
normalizedFilePaths == {NormalizeSlashes(sProject[i].path) : i \in 1..Len(sProject)}

\* the state before the first pass of the scan of a project of at most
\* maxFiles files of a universe
ProjectFrom(universe, maxFiles) ==
  /\ \E chosen \in SUBSET (1..Len(universe)), reversed \in BOOLEAN :
       /\ Cardinality(chosen) <= maxFiles
       /\ sProject = Listing(universe, chosen, reversed, 1)
  /\ sFiles = <<>> /\ sRelationships = <<>> /\ sHubs = <<>> /\ sFeatures = <<>>
  /\ sPc = "scan"
  /\ rFrom = Null /\ rSpec = Null /\ rPaths = {} /\ rResult = Null /\ rPc = "idle"
  /\ TraverseIdle
  /\ CallIdle
  /\ UploadIdle

ScanInit == ProjectFrom(ProjectUniverse, MaxProjectFiles)

\* metadata.totalFiles (line 1857)
totalFiles == Len(sProject)

\* a first pass in which a confident content classification also moves the
\* file to the backend category
ScannedWithContentCategory(relativePath, content) ==
  [path |-> relativePath,
   type |-> IF Confident(classifyByContent(content)) THEN classifyByContent(content).type
            ELSE classifyByPath(relativePath).type,
   role |-> IF Confident(classifyByContent(content)) THEN classifyByContent(content).role
            ELSE classifyByPath(relativePath).role,
   category |-> IF Confident(classifyByContent(content)) THEN "backend"
                ELSE classifyByPath(relativePath).category,
   analysis |-> analyzeCode(content, relativePath, normalizedFilePaths)]

\* lines 1761-1795: one iteration of the first pass
ScannedFile(relativePath, content) ==
  With(classifyByPath(relativePath),
       LAMBDA pathClassification :
         With(classifyByContent(content),
              LAMBDA contentClassification :
                LET confident == Confident(contentClassification)
                IN  [path |-> relativePath,
                     type |-> IF confident THEN contentClassification.type
                              ELSE pathClassification.type,
                     role |-> IF confident THEN contentClassification.role
                              ELSE pathClassification.role,
                     category |-> pathClassification.category,
                     analysis |->
                       With(normalizedFilePaths,
                            LAMBDA allFilePaths :
                              analyzeCode(content, relativePath, allFilePaths))]))

ScanFile ==
  /\ sPc = "scan"
  /\ Len(sFiles) < Len(sProject)
  /\ LET next == sProject[Len(sFiles) + 1]
     IN  sFiles' = Append(sFiles, ScannedFile(next.path, readFileContent(next)))
  /\ UNCHANGED <<sProject, sRelationships, sHubs, sFeatures, sPc>>
  /\ UNCHANGED resolveVars
  /\ UNCHANGED traverseVars
  /\ UNCHANGED callVars
  /\ UNCHANGED uploadVars

\* a second pass that finds no importer
NoImporters(scanned, path) == <<>>

\* lines 1799-1814: the importers of a path, in the order of files
RECURSIVE Importers(_, _)
Importers(scanned, path) ==
  IF Len(scanned) = 0 THEN <<>>
  ELSE (IF SeqIncludes(scanned[1].analysis.resolvedImports, path)
          THEN <<NormalizeSlashes(scanned[1].path)>> ELSE <<>>)
       \o Importers(Tail(scanned), path)

\* lines 1798-1839: the second pass
BuildImportedBy ==
  /\ sPc = "scan"
  /\ Len(sFiles) = Len(sProject)
  /\ sFiles' = [i \in 1..Len(sFiles) |->
                  [sFiles[i] EXCEPT !.analysis.importedBy =
                                      Importers(sFiles, NormalizeSlashes(sFiles[i].path))]]
  /\ sPc' = "graph"
  /\ UNCHANGED <<sProject, sRelationships, sHubs, sFeatures>>
  /\ UNCHANGED resolveVars
  /\ UNCHANGED traverseVars
  /\ UNCHANGED callVars
  /\ UNCHANGED uploadVars

\* filesForGraph and detectionFiles (lines 1846-1853, 1871-1880)
detectionFiles ==
  [i \in 1..Len(sFiles) |->
     [path |-> sFiles[i].path, type |-> sFiles[i].type, role |-> sFiles[i].role,
      category |-> sFiles[i].category, routes |-> sFiles[i].analysis.routes,
      imports |-> sFiles[i].analysis.resolvedImports]]

BuildRelationships ==
  /\ sPc = "graph"
  /\ sRelationships' = buildRelationshipGraph(detectionFiles)
  /\ sPc' = "hubs"
  /\ UNCHANGED <<sProject, sFiles, sHubs, sFeatures>>
  /\ UNCHANGED resolveVars
  /\ UNCHANGED traverseVars
  /\ UNCHANGED callVars
  /\ UNCHANGED uploadVars

\* detectFeatures, step 1
IdentifyHubs ==
  /\ sPc = "hubs"
  /\ sHubs' = identifyHubs(detectionFiles)
  /\ sPc' = "group"
  /\ UNCHANGED <<sProject, sFiles, sRelationships, sFeatures>>
  /\ UNCHANGED resolveVars
  /\ UNCHANGED traverseVars
  /\ UNCHANGED callVars
  /\ UNCHANGED uploadVars

\* detectFeatures, steps 2-4
GroupHubsByFeature ==
  /\ sPc = "group"
  /\ IF groupingThrows(sHubs)
       THEN sPc' = "failed" /\ sFeatures' = sFeatures
     ELSE sFeatures' = groupHubsByFeature(sHubs) /\ sPc' = "expand"
  /\ UNCHANGED <<sProject, sFiles, sRelationships, sHubs>>
  /\ UNCHANGED resolveVars
  /\ UNCHANGED traverseVars
  /\ UNCHANGED callVars
  /\ UNCHANGED uploadVars

\* detectFeatures, steps 5-6, and the return of scanProject
ExpandFeatures ==
  /\ sPc = "expand"
  /\ sFeatures' = expandFeatures(sFeatures, sRelationships, detectionFiles)
  /\ sPc' = "done"
  /\ UNCHANGED <<sProject, sFiles, sRelationships, sHubs>>
  /\ UNCHANGED resolveVars
  /\ UNCHANGED traverseVars
  /\ UNCHANGED callVars
  /\ UNCHANGED uploadVars

Next ==
  \/ ScanFile
  \/ BuildImportedBy
  \/ BuildRelationships
  \/ IdentifyHubs
  \/ GroupHubsByFeature
  \/ ExpandFeatures

Spec == ScanInit /\ [][Next]_vars

(***************************************************************************)
(* The scan of projects of files that are large, unreadable, oddly named   *)
(* or whose content scores near the thresholds of the classifier.          *)
(***************************************************************************)
MaxListedFiles == 2   \* files of such a project

\* a route module that requires a service, declares a route, exports a
\* handler and calls axios and fetch
HandlerContent ==
  ContentWith(<<Require("../services/helper", "helper")>>,
              <<RouteDecl("router", "get", "/items")>>,
              {"routerFactory"},
              <<ExportDecl("cjs_named", "list", "function"),
                ExportDecl("cjs_named", "list", "function")>>,
              <<FetchCall("/api/ping"), AxiosCall("get", "/api/items")>>)

Signals(signals) == Content(<<>>, <<>>, signals)

FileUniverse ==
  <<DiskFile("server/routes/big.js", HandlerContent, 2 * MAX_FILE_SIZE, TRUE),
    DiskFile("server/routes/edge.js", HandlerContent, MAX_FILE_SIZE, TRUE),
    DiskFile("server/routes/over.js", HandlerContent, MAX_FILE_SIZE + 1, TRUE),
    DiskFile("server/routes/locked.js", HandlerContent, 512, FALSE),
    File("server/services/helper.js", Signals({"asyncFunction", "dbCall"})),
    File("client/src/utils/s0.ts", Signals({})),
    File("client/src/utils/s6.ts", Signals({"loaderOrAction", "formOrLoaderData"})),
    File("client/src/utils/s8.ts", Signals({"interfaceDecl", "typeAlias"})),
    File("client/src/utils/s10.ts", Signals({"returnsJsx", "dotMethodCall"})),
    File("client/src/utils/s11.ts", Signals({"reqRes", "reqField"})),
    File("client/src/utils/s35.ts", Signals({"newSchema", "mongooseModel"})),
    File("docs/notes.md", Signals({"reqResNext", "nextCall"})),
    File("README", Signals({})),
    File("Dockerfile", Signals({})),
    File(".env", Signals({})),
    File("src\\components\\Button.tsx", Signals({"jsxTag"})),
    File("server/constructor/handler.js", Signals({})),
    File("client/src/__proto__/shim.ts", Signals({})),
    File("package.json", Signals({})),
    File("server/tests/auth.test.js", Signals({"reqRes", "resSend"}))>>

FilesInit == ProjectFrom(FileUniverse, MaxListedFiles)

SpecFiles == FilesInit /\ [][Next]_vars

(***************************************************************************)
(* The scan of projects of hub files: synonyms of auth and dashboard,      *)
(* singular and plural names, a path two naming patterns match, a hub no   *)
(* pattern names and hubs named like a key every object inherits.           *)
(***************************************************************************)
MaxHubFiles == 3   \* files of such a project

HubUniverse ==
  <<File("client/src/pages/Login.tsx", Signals({})),
    File("client/src/api/login.ts", Signals({})),
    File("client/src/pages/Register.tsx", Signals({})),
    File("client/src/pages/Signup.tsx", Signals({})),
    File("client/src/pages/ForgotPassword.tsx", Signals({})),
    File("server/routes/authRoutes.js", Signals({})),
    File("server/controllers/authController.js", Signals({})),
    File("client/src/pages/Home.tsx", Signals({})),
    File("client/src/pages/Overview.tsx", Signals({})),
    File("client/src/pages/dashboard/index.tsx", Signals({})),
    File("server/routes/budgets.js", Signals({})),
    File("client/src/api/budgets.ts", Signals({})),
    File("client/src/pages/Budget.tsx", Signals({})),
    File("server/handlers.js", HandlerContent),
    File("server/routes/constructor.js", Signals({})),
    File("server/controllers/__proto__Controller.js", Signals({}))>>

HubsInit == ProjectFrom(HubUniverse, MaxHubFiles)

SpecHubs == HubsInit /\ [][Next]_vars

(***************************************************************************)
(* findConnectedFiles call by call: the recursion of traverse is the stack *)
(* tStack, one step per guard test, per entry and per outgoing edge, on    *)
(* import graphs with cycles, self-imports, a shared-infrastructure file   *)
(* and both orders of the edges.                                           *)
(***************************************************************************)
MaxGraphEdges == 6   \* import edges of the graph

HubFile == "server/routes/orderRoutes.js"
ControllerFile == "server/controllers/orderController.js"
ServiceFile == "server/services/orderService.js"
OrderFile == "server/models/Order.js"
ItemFile == "server/models/Item.js"
UtilsFile == "server/lib/utils.js"
DbFile == "server/config/db.js"

GraphPaths ==
  <<HubFile, ControllerFile, ServiceFile, OrderFile, ItemFile, UtilsFile, DbFile>>

EdgeUniverse ==
  <<Relationship(HubFile, ControllerFile, "imports"),
    Relationship(ControllerFile, ServiceFile, "imports"),
    Relationship(ServiceFile, OrderFile, "imports"),
    Relationship(HubFile, OrderFile, "imports"),
    Relationship(OrderFile, ItemFile, "imports"),
    Relationship(ControllerFile, ControllerFile, "imports"),
    Relationship(ServiceFile, HubFile, "imports"),
    Relationship(HubFile, UtilsFile, "imports"),
    Relationship(UtilsFile, DbFile, "imports"),
    Relationship(ControllerFile, UtilsFile, "imports"),
    Relationship(ItemFile, ControllerFile, "imports")>>

\* the files of a graph, each with its resolved imports in the order of the edges
GraphFiles(relationships) ==
  [i \in 1..Len(GraphPaths) |->
     [path |-> GraphPaths[i], imports |-> RelationshipTargets(relationships, GraphPaths[i])]]

\* a call of traverse(path, depth) that has not tested its stop conditions;
\* shared holds, for every outgoing edge, what isSharedInfrastructure says of
\* its target
Frame(path, depth) ==
  [path |-> path, depth |-> depth, outgoing |-> <<>>, shared |-> <<>>, i |-> 0,
   entered |-> FALSE]

\* isSharedInfrastructure of every target of a list of outgoing edges
NoSharedTargets(outgoing) == [k \in 1..Len(outgoing) |-> FALSE]

SharedTargets(outgoing) ==
  [k \in 1..Len(outgoing) |-> isSharedInfrastructure(outgoing[k])]

\* a traversal that takes every target for a new one
NeverFound(found, targetPath) == FALSE

\* line 395: connected.has(targetPath) || sharedDeps.has(targetPath)
AlreadyFound(found, targetPath) ==
  SeqIncludes(found.connected, targetPath) \/ SeqIncludes(found.sharedDeps, targetPath)

\* line 367: depth > maxDepth || visited.has(path)
StopsAt(frame, found) == frame.depth > maxDepth \/ frame.path \in found.visited

\* the call findConnectedFiles(HubFile, relationships, files) on a graph of at
\* most MaxGraphEdges edges of the universe, up to the first call of traverse
TraverseInit ==
  /\ \E chosen \in SUBSET (1..Len(EdgeUniverse)), reversed \in BOOLEAN :
       /\ Cardinality(chosen) <= MaxGraphEdges
       /\ sRelationships = Listing(EdgeUniverse, chosen, reversed, 1)
  /\ sFiles = GraphFiles(sRelationships)
  /\ sProject = <<>> /\ sHubs = <<>> /\ sFeatures = <<>> /\ sPc = "idle"
  /\ rFrom = Null /\ rSpec = Null /\ rPaths = {} /\ rResult = Null /\ rPc = "idle"
  /\ tStack = <<Frame(HubFile, 0)>>
  /\ tFound = [connected |-> <<HubFile>>, sharedDeps |-> <<>>, visited |-> {}]
  /\ tCalls = <<HubFile>>
  /\ tPc = "run"
  /\ CallIdle
  /\ UploadIdle

Top == tStack[Len(tStack)]
Pop == SubSeq(tStack, 1, Len(tStack) - 1)

TraverseFrame ==
  /\ UNCHANGED resolveVars
  /\ UNCHANGED scanVars
  /\ UNCHANGED callVars
  /\ UNCHANGED uploadVars

\* line 367: a stop condition holds, the call returns
TraverseStop ==
  /\ tPc = "run" /\ tStack # <<>> /\ ~Top.entered
  /\ StopsAt(Top, tFound)
  /\ tStack' = Pop
  /\ UNCHANGED <<tFound, tCalls, tPc>>
  /\ TraverseFrame

\* lines 368-391: the path is marked visited and its outgoing edges collected
TraverseEnter ==
  /\ tPc = "run" /\ tStack # <<>> /\ ~Top.entered
  /\ ~StopsAt(Top, tFound)
  /\ tFound' = [tFound EXCEPT !.visited = @ \cup {Top.path}]
  /\ tStack' = [tStack EXCEPT ![Len(tStack)] =
                  [@ EXCEPT !.outgoing = Outgoing(Top.path, sRelationships, sFiles),
                            !.shared = With(Outgoing(Top.path, sRelationships, sFiles),
                                            LAMBDA outgoing : SharedTargets(outgoing)),
                            !.i = 1, !.entered = TRUE]]
  /\ UNCHANGED <<tCalls, tPc>>
  /\ TraverseFrame

Target == Top.outgoing[Top.i]

AtTarget == tPc = "run" /\ tStack # <<>> /\ Top.entered /\ Top.i <= Len(Top.outgoing)

\* line 395: the target is known already
SkipTarget ==
  /\ AtTarget
  /\ AlreadyFound(tFound, Target)
  /\ tStack' = [tStack EXCEPT ![Len(tStack)].i = @ + 1]
  /\ UNCHANGED <<tFound, tCalls, tPc>>
  /\ TraverseFrame

\* lines 397-401: a shared-infrastructure target is recorded and not followed
ShareTarget ==
  /\ AtTarget
  /\ ~AlreadyFound(tFound, Target)
  /\ Top.shared[Top.i]
  /\ tFound' = [tFound EXCEPT !.sharedDeps = Append(@, Target)]
  /\ tStack' = [tStack EXCEPT ![Len(tStack)].i = @ + 1]
  /\ UNCHANGED <<tCalls, tPc>>
  /\ TraverseFrame

\* lines 402-405: the target is connected and traverse is called with it
FollowTarget ==
  /\ AtTarget
  /\ ~AlreadyFound(tFound, Target)
  /\ ~Top.shared[Top.i]
  /\ tFound' = [tFound EXCEPT !.connected = Append(@, Target)]
  /\ tStack' = Append([tStack EXCEPT ![Len(tStack)].i = @ + 1],
                      Frame(Target, Top.depth + 1))
  /\ tCalls' = Append(tCalls, Target)
  /\ UNCHANGED tPc
  /\ TraverseFrame

\* line 407: forEach is over, the call returns
TraverseReturn ==
  /\ tPc = "run" /\ tStack # <<>> /\ Top.entered /\ Top.i > Len(Top.outgoing)
  /\ tStack' = Pop
  /\ UNCHANGED <<tFound, tCalls, tPc>>
  /\ TraverseFrame

\* lines 410-411: findConnectedFiles returns
TraverseDone ==
  /\ tPc = "run" /\ tStack = <<>>
  /\ tPc' = "returned"
  /\ UNCHANGED <<tStack, tFound, tCalls>>
  /\ TraverseFrame

TraverseNext ==
  \/ TraverseStop
  \/ TraverseEnter
  \/ SkipTarget
  \/ ShareTarget
  \/ FollowTarget
  \/ TraverseReturn
  \/ TraverseDone

SpecTraverse == TraverseInit /\ [][TraverseNext]_vars

\* the calls of one invocation run to their end: nothing else runs meanwhile
SpecTraverseFair == SpecTraverse /\ WF_vars(TraverseNext)

(***************************************************************************)
(* The resolver on its own: every importing file, specifier and project    *)
(* path set of the bounded universe, then the call.                        *)
(***************************************************************************)
ResolveFromFiles ==
  {"server/src/services/x.ts", "client/src/pages/Foo.tsx", "index.js"}

ResolveProjectPaths ==
  {"server/src/lib/db.ts", "server/src/lib/db.json", "server/src/lib/db/index.js",
   "src/lib/db.ts", "lib/db.js", "lib/db",
   "client/src/utils/foo.ts", "client/src/utils/foo.js",
   "client/src/lib/db.json", "client/src/lib/db/index.mjs",
   "server/src/services/lodash.js", "lodash", "db.ts"}

ResolveSpecifiers ==
  {"@/lib/db", "~/lib/db", "@/lib/db/", "../utils/foo", "../lib/db", "./lodash",
   "/lib/db", "./../services/./x.ts", "lodash", "lib/db", "@scope/db", "db", "/"}

ResolveInit ==
  /\ rFrom \in ResolveFromFiles
  /\ rSpec \in ResolveSpecifiers
  /\ \E others \in SUBSET ResolveProjectPaths :
       /\ Cardinality(others) <= MaxResolvePaths
       /\ rPaths = others \cup {rFrom}
  /\ rResult = Null
  /\ rPc = "call"
  /\ sProject = <<>> /\ sFiles = <<>> /\ sRelationships = <<>>
  /\ sHubs = <<>> /\ sFeatures = <<>> /\ sPc = "idle"
  /\ TraverseIdle
  /\ CallIdle
  /\ UploadIdle

Resolve ==
  /\ rPc = "call"
  /\ rResult' = resolveImportPath(rSpec, rFrom, rPaths)
  /\ rPc' = "done"
  /\ UNCHANGED <<rFrom, rSpec, rPaths>>
  /\ UNCHANGED scanVars
  /\ UNCHANGED traverseVars
  /\ UNCHANGED callVars
  /\ UNCHANGED uploadVars

ResolveNext == Resolve

SpecResolve == ResolveInit /\ [][ResolveNext]_vars

(***************************************************************************)
(* Claims about resolveImportPath, checked under SpecResolve.              *)
(***************************************************************************)
\* the paths that match base exactly, by one of the alias branch's
\* extensions, or as one of its index files
AliasMatches(base) ==
  {p \in rPaths :
     \/ p = base
     \/ \E i \in 1..Len(AliasExtensions) : p = base \o AliasExtensions[i]
     \/ \E i \in 1..Len(AliasIndexFiles) : p = base \o "/" \o AliasIndexFiles[i]}

\* <prefix>/src of the importing file, by hand for the files of the universe
DerivedRoot ==
  IF rFrom = "server/src/services/x.ts" THEN "server/src"
  ELSE IF rFrom = "client/src/pages/Foo.tsx" THEN "client/src"
  ELSE Null

\* C5: a specifier that starts with none of '.', '/', '@/', '~/' resolves to
\* null, whatever the importing file and the project paths (also when a
\* project file is named like the specifier).
C5_ExternalIsNull ==
  (/\ rPc = "done"
   /\ \A prefix \in {".", "/", "@/", "~/"} : ~StartsWith(rSpec, prefix))
  => rResult = Null

C5_Witness ==
  /\ rPc = "done"
  /\ rSpec = "lodash"
  /\ "lodash" \in rPaths
  /\ "server/src/services/lodash.js" \in rPaths
  /\ rFrom = "server/src/services/x.ts"
  /\ rResult = Null

\* C6: an '@/' import from a file under <prefix>/src/ returns a match under
\* <prefix>/src (exact, by extension or index file) whenever there is one,
\* also when the generic directories hold a match.
C6_AliasRootPriority ==
  (/\ rPc = "done"
   /\ StartsWith(rSpec, "@/")
   /\ DerivedRoot # Null
   /\ AliasMatches(DerivedRoot \o "/" \o StripTrailingSlash(Substring(rSpec, 2))) # {})
  => rResult \in AliasMatches(DerivedRoot \o "/" \o StripTrailingSlash(Substring(rSpec, 2)))

C6_Witness ==
  /\ rPc = "done"
  /\ rFrom = "server/src/services/x.ts"
  /\ rSpec = "@/lib/db"
  /\ "server/src/lib/db.ts" \in rPaths
  /\ "src/lib/db.ts" \in rPaths
  /\ rResult = "server/src/lib/db.ts"

\* C7: a '~/' import is resolved against the candidate list of '@/', the
\* directory derived from the importing file's .../src/ ancestor first: it
\* returns a match under <prefix>/src whenever there is one.
C7_TildeUsesDerivedRoot ==
  (/\ rPc = "done"
   /\ StartsWith(rSpec, "~/")
   /\ DerivedRoot # Null
   /\ AliasMatches(DerivedRoot \o "/" \o StripTrailingSlash(Substring(rSpec, 2))) # {})
  => rResult \in AliasMatches(DerivedRoot \o "/" \o StripTrailingSlash(Substring(rSpec, 2)))

\* the extension order of the specification, and its index files
ClaimedExtensions == <<".ts", ".tsx", ".js", ".jsx", ".mjs", ".cjs", ".json", ".vue", ".svelte">>
ClaimedIndexFiles == [i \in 1..Len(ClaimedExtensions) |-> "index" \o ClaimedExtensions[i]]

ClaimedLookup(base) ==
  IF base \in rPaths THEN base
  ELSE LET withExt == FirstWithSuffix(base, "", ClaimedExtensions, rPaths)
       IN  IF withExt # Null THEN withExt
           ELSE FirstWithSuffix(base, "/", ClaimedIndexFiles, rPaths)

RECURSIVE ClaimedAliasLoop(_, _)
ClaimedAliasLoop(dirs, aliasPath) ==
  IF Len(dirs) = 0 THEN Null
  ELSE LET found == ClaimedLookup(Head(dirs) \o "/" \o aliasPath)
       IN  IF found # Null THEN found ELSE ClaimedAliasLoop(Tail(dirs), aliasPath)

\* C8: every candidate base path, relative, root-relative or alias, is tried
\* as the exact path, then with .ts .tsx .js .jsx .mjs .cjs .json .vue
\* .svelte in that order, then as a directory with an index file; the first
\* match wins.
C8_OneExtensionOrder ==
  rPc = "done" =>
    /\ (StartsWith(rSpec, ".") =>
          rResult = ClaimedLookup(StripTrailingSlash(PathJoin(Dirname(rFrom), rSpec))))
    /\ (StartsWith(rSpec, "@/") /\ rSpec # "@/" =>
          LET aliasPath == StripTrailingSlash(Substring(rSpec, 2))
              found == ClaimedAliasLoop(AtAliasDirs(rFrom), aliasPath)
          IN  rResult = IF found # Null THEN found
                        ELSE IF aliasPath \in rPaths THEN aliasPath ELSE Null)

(***************************************************************************)
(* Properties of a scan.                                                   *)
(***************************************************************************)
Scanned == sPc = "done"

InProject(path) == path \in normalizedFilePaths

ScannedAt(path) == CHOOSE i \in 1..Len(sFiles) : sFiles[i].path = path

\* C1: a non-null result of resolveImportPath is a path of the project path
\* set, so every resolved path of an import entry, every entry of a file's
\* analysis.resolvedImports and the `to` end of every relationship is the
\* path of a discovered file.
C1_ResolutionSound ==
  /\ rPc = "done" /\ rResult # Null => rResult \in rPaths
  /\ \A i \in 1..Len(sFiles) :
       /\ \A k \in 1..Len(sFiles[i].analysis.imports) :
            sFiles[i].analysis.imports[k].resolvedPath # Null =>
              InProject(sFiles[i].analysis.imports[k].resolvedPath)
       /\ \A k \in 1..Len(sFiles[i].analysis.resolvedImports) :
            InProject(sFiles[i].analysis.resolvedImports[k])
  /\ \A k \in 1..Len(sRelationships) : InProject(sRelationships[k].to)

\* a scan with a resolved import, an unresolved relative import and an edge
C1_Witness ==
  /\ Scanned
  /\ Len(sRelationships) > 0
  /\ \E i \in 1..Len(sFiles) : Len(sFiles[i].analysis.resolvedImports) > 0
  /\ \E i \in 1..Len(sFiles) : \E k \in 1..Len(sFiles[i].analysis.imports) :
       /\ StartsWith(sFiles[i].analysis.imports[k].value, "../")
       /\ sFiles[i].analysis.imports[k].resolvedPath = Null

\* the shared-infrastructure patterns as the specification lists them
ClaimedSharedInfra(path) ==
  \/ Includes(path, "/components/ui/")
  \/ \E e \in {"ts", "js", "tsx", "jsx"} :
       EndsWith(path, "/lib/utils." \o e) \/ EndsWith(path, "/api/index." \o e)

SeqRange(q) == {q[i] : i \in 1..Len(q)}

HubPaths(feature) == {feature.hubs[i].path : i \in 1..Len(feature.hubs)}

\* what findConnectedFiles returns for the hub at a path in the finished scan
ConnectedTo(hubPath) == findConnectedFiles(hubPath, sRelationships, detectionFiles, maxDepth)

ImportsOf(path) == SeqRange(sFiles[ScannedAt(path)].analysis.resolvedImports)

\* the files at most k import edges away from a file
RECURSIVE WithinImports(_, _)
WithinImports(path, k) ==
  IF k = 0 THEN {path}
  ELSE LET near == WithinImports(path, k - 1)
       IN  near \cup UNION {ImportsOf(p) : p \in near}

\* C3: every file that findConnectedFiles returns for a hub is at most 2
\* import edges away from the hub (the hub, the files it imports, the files
\* those import); no file at distance 3 or more is returned.
C3_DepthBound ==
  Scanned =>
    \A i \in 1..Len(sHubs) :
      SeqRange(ConnectedTo(sHubs[i].path).files) \subseteq WithinImports(sHubs[i].path, 2)

Grouped == sPc \in {"expand", "done"}

\* the features that hold a hub
FeaturesOf(hubPath) ==
  {f \in 1..Len(sFeatures) : hubPath \in HubPaths(sFeatures[f].value)}

\* C4: hubs whose canonical names reduce to one singular form are in exactly
\* one feature, and the key of that feature is the singular form, whatever
\* the frequencies of the singular and the plural variant.
C4_KeyedBySingular ==
  Grouped =>
    \A i \in 1..Len(sHubs) :
      extractFeatureName(sHubs[i].path) # Null =>
        \E f \in 1..Len(sFeatures) :
          /\ FeaturesOf(sHubs[i].path) = {f}
          /\ sFeatures[f].key =
               normalizePluralSingular(
                 detectFeatureRelationships(extractFeatureName(sHubs[i].path)))

\* the import entries of a scanned file for one specifier
EntriesFor(path, value) ==
  SelectSeq(sFiles[ScannedAt(path)].analysis.imports, LAMBDA e : e.value = value)

\* C9: '../utils/foo' imported from client/src/pages/Foo.tsx resolves to
\* client/src/utils/foo.ts when that path is in the project, and the entry of
\* `import Foo, { bar as baz } from '../utils/foo'` has imported
\* ['Foo', 'bar as baz'] and appears once.
C9_RelativeScenario ==
  (/\ Scanned
   /\ InProject("client/src/pages/Foo.tsx")
   /\ InProject("client/src/utils/foo.ts"))
  => /\ Len(EntriesFor("client/src/pages/Foo.tsx", "../utils/foo")) = 1
     /\ EntriesFor("client/src/pages/Foo.tsx", "../utils/foo")[1].imported
          = <<"Foo", "bar as baz">>
     /\ EntriesFor("client/src/pages/Foo.tsx", "../utils/foo")[1].resolvedPath
          = "client/src/utils/foo.ts"

\* C10: server/routes/authRoutes.js with router.post('/login'),
\* router.post('/register') and a repeated declaration ends the scan as a
\* backend route with the routes POST /login, POST /register in that order,
\* each once, and is a hub of the feature keyed auth.
C10_AuthRoutesScenario ==
  Scanned /\ InProject("server/routes/authRoutes.js") =>
    /\ sFiles[ScannedAt("server/routes/authRoutes.js")].type = "route"
    /\ sFiles[ScannedAt("server/routes/authRoutes.js")].category = "backend"
    /\ sFiles[ScannedAt("server/routes/authRoutes.js")].analysis.routes
         = <<[method |-> "POST", path |-> "/login"], [method |-> "POST", path |-> "/register"]>>
    /\ \E f \in 1..Len(sFeatures) :
         /\ sFeatures[f].key = "auth"
         /\ "server/routes/authRoutes.js" \in HubPaths(sFeatures[f].value)

\* the route file scanned with its controller and the login page, which
\* belong to the same feature
C10_Witness ==
  /\ Scanned
  /\ InProject("server/routes/authRoutes.js")
  /\ \E f \in 1..Len(sFeatures) :
       /\ sFeatures[f].key = "auth"
       /\ {"server/routes/authRoutes.js", "server/controllers/authController.js",
           "client/src/pages/Login.tsx"} \subseteq HubPaths(sFeatures[f].value)

\* the file on disk behind a scanned record
OnDisk(i) == sProject[i]

NotRead(file) == ~file.canRead \/ file.size > 1048576

\* C11: the scan makes one record per discovered path, in the order of
\* discovery, and totalFiles counts them; a file larger than 1,048,576 bytes
\* or unreadable has the type, role and category of its path and empty
\* imports, resolvedImports, exports, routes and apiCalls; a readable file of
\* at most that size is analysed from its text.
C11_NoPathDropped ==
  /\ Len(sFiles) <= totalFiles
  /\ Scanned => Len(sFiles) = totalFiles
  /\ \A i \in 1..Len(sFiles) :
       /\ sFiles[i].path = OnDisk(i).path
       /\ NotRead(OnDisk(i)) =>
            /\ sFiles[i].type = classifyByPath(OnDisk(i).path).type
            /\ sFiles[i].role = classifyByPath(OnDisk(i).path).role
            /\ sFiles[i].category = classifyByPath(OnDisk(i).path).category
            /\ sFiles[i].analysis.imports = <<>>
            /\ sFiles[i].analysis.resolvedImports = <<>>
            /\ sFiles[i].analysis.exports = <<>>
            /\ sFiles[i].analysis.routes = <<>>
            /\ sFiles[i].analysis.apiCalls = <<>>
       /\ ~NotRead(OnDisk(i)) =>
            /\ Len(sFiles[i].analysis.imports) > 0 <=> Len(OnDisk(i).content.imports) > 0
            /\ Len(sFiles[i].analysis.exports) > 0 <=> Len(OnDisk(i).content.exports) > 0
            /\ Len(sFiles[i].analysis.apiCalls) = Len(OnDisk(i).content.apiCalls)

\* a finished scan of a route module of exactly 1,048,576 bytes, which is
\* read, and of one a byte larger, which is not
C11_Witness ==
  /\ Scanned
  /\ InProject("server/routes/edge.js")
  /\ InProject("server/routes/over.js")
  /\ sFiles[ScannedAt("server/routes/edge.js")].analysis.routes
       = <<[method |-> "GET", path |-> "/items"]>>
  /\ sFiles[ScannedAt("server/routes/over.js")].analysis.routes = <<>>

NoDuplicates(q) == \A i, j \in 1..Len(q) : q[i] = q[j] => i = j

\* C12: once the second pass has run, A is in B's importedBy exactly when B
\* is in A's resolvedImports, for all scanned files A and B, and no
\* importedBy holds a path twice; until every file has been scanned no
\* importedBy is filled.
C12_ImportedByIsReverse ==
  /\ sPc = "scan" => \A i \in 1..Len(sFiles) : sFiles[i].analysis.importedBy = <<>>
  /\ sPc # "scan" =>
       /\ Len(sFiles) = Len(sProject)
       /\ \A a, b \in 1..Len(sFiles) :
            sFiles[a].path \in SeqRange(sFiles[b].analysis.importedBy)
              <=> sFiles[b].path \in SeqRange(sFiles[a].analysis.resolvedImports)
       /\ \A b \in 1..Len(sFiles) :
            /\ NoDuplicates(sFiles[b].analysis.importedBy)
            /\ SeqRange(sFiles[b].analysis.importedBy) \subseteq normalizedFilePaths

\* a finished scan in which the auth routes are imported by the api index and
\* import the auth controller
C12_Witness ==
  /\ Scanned
  /\ \E a, b, c \in 1..Len(sFiles) :
       /\ sFiles[a].path = "server/routes/api/index.js"
       /\ sFiles[b].path = "server/routes/authRoutes.js"
       /\ sFiles[c].path = "server/controllers/authController.js"
       /\ sFiles[b].analysis.importedBy = <<sFiles[a].path>>
       /\ sFiles[b].analysis.resolvedImports = <<sFiles[c].path>>
       /\ sFiles[c].analysis.importedBy = <<sFiles[b].path>>

ImportsEdgeAt(k) == sRelationships[k].type = "imports"

\* C13: in the relationships of a scan there is an imports edge (A,B) exactly
\* when B is in A's resolvedImports, and no two imports edges have the same
\* (from,to) pair, whatever the number of specifiers through which A imports B.
C13_ImportsEdgesExact ==
  sPc \in {"hubs", "group", "expand", "done"} =>
    /\ {<<sRelationships[k].from, sRelationships[k].to>> :
          k \in {n \in 1..Len(sRelationships) : ImportsEdgeAt(n)}}
         = UNION {{<<NormalizeSlashes(sFiles[a].path), target>> :
                     target \in SeqRange(sFiles[a].analysis.resolvedImports)} :
                  a \in 1..Len(sFiles)}
    /\ \A k, n \in 1..Len(sRelationships) :
         /\ ImportsEdgeAt(k) /\ ImportsEdgeAt(n)
         /\ sRelationships[k].from = sRelationships[n].from
         /\ sRelationships[k].to = sRelationships[n].to
         => k = n

\* a finished scan of the budget page, which imports client/src/api/budgets.ts
\* through @/api/budgets and through ../api/budgets
C13_Witness ==
  /\ Scanned
  /\ \E a \in 1..Len(sFiles) :
       /\ sFiles[a].path = "client/src/pages/Budget.tsx"
       /\ Cardinality({i \in 1..Len(sFiles[a].analysis.imports) :
                         /\ "resolvedPath" \in DOMAIN sFiles[a].analysis.imports[i]
                         /\ sFiles[a].analysis.imports[i].resolvedPath
                              = "client/src/api/budgets.ts"}) = 2
       /\ Cardinality({k \in 1..Len(sRelationships) :
                         sRelationships[k] = Relationship("client/src/pages/Budget.tsx",
                                                          "client/src/api/budgets.ts",
                                                          "imports")}) = 1

EdgePairs(type) ==
  {<<sRelationships[k].from, sRelationships[k].to>> :
     k \in {n \in 1..Len(sRelationships) : sRelationships[n].type = type}}

\* the type the scan gave the file of a path, Null when no file has the path
TypeOf(path) ==
  LET at == {i \in 1..Len(sFiles) : NormalizeSlashes(sFiles[i].path) = path}
  IN  IF at = {} THEN Null ELSE sFiles[CHOOSE i \in at : TRUE].type

\* C14: a uses edge (A,B) exists exactly when an imports edge (A,B) exists and
\* the type of B is in the LAYER_TRANSITIONS entry of the type of A; no two
\* uses edges have the same (from,to) pair; a file whose type has no entry is
\* the source of no uses edge.
C14_UsesIsLayerLegalImports ==
  sPc \in {"hubs", "group", "expand", "done"} =>
    /\ EdgePairs("uses")
         = {e \in EdgePairs("imports") : TypeOf(e[2]) \in LAYER_TRANSITIONS(TypeOf(e[1]))}
    /\ \A k, n \in 1..Len(sRelationships) :
         /\ sRelationships[k] = sRelationships[n]
         /\ sRelationships[k].type = "uses"
         => k = n
    /\ \A e \in EdgePairs("uses") :
         TypeOf(e[1]) \in {"route", "controller", "service", "middleware", "page", "component"}

\* a finished scan with a route that uses its controller and a file of a type
\* without entry that imports another file
C14_Witness ==
  /\ Scanned
  /\ <<"server/routes/authRoutes.js", "server/controllers/authController.js">>
       \in EdgePairs("uses")
  /\ <<"client/src/api/budgets.ts", "client/src/api/index.ts">>
       \in EdgePairs("imports") \ EdgePairs("uses")
  /\ TypeOf("client/src/api/budgets.ts")
       \notin {"route", "controller", "service", "middleware", "page", "component"}

\* the highest of the per-type scores of a content
TopScore(content) ==
  LET scores == Scores(content)
  IN  CHOOSE m \in {scores[t] : t \in DOMAIN scores} : \A t \in DOMAIN scores : scores[t] <= m

\* the first type, in the order of the scores object, with the highest score
TopType(content) ==
  LET scores == Scores(content)
  IN  ScoreTypes[CHOOSE i \in 1..Len(ScoreTypes) :
                   /\ scores[ScoreTypes[i]] = TopScore(content)
                   /\ \A j \in 1..(i - 1) : scores[ScoreTypes[j]] # TopScore(content)]

\* C15: with s the highest content score of a file that was read, the content
\* scorer returns null when s < 8 and otherwise the top type with confidence
\* min(s/22, 1); the final type and role are the content scorer's when
\* s >= 11 and the path classifier's when s <= 10 or the content is absent.
C15_ContentOverrideThreshold ==
  \A i \in 1..Len(sFiles) :
    LET file == OnDisk(i)
        byPath == classifyByPath(file.path)
        byContent == classifyByContent(file.content)
        s == TopScore(file.content)
    IN  /\ ~NotRead(file) /\ s < 8 => byContent = NoContentClass
        /\ ~NotRead(file) /\ s >= 8 =>
             /\ byContent.type = TopType(file.content)
             /\ 22 * byContent.confidence = (IF s <= 22 THEN s ELSE 22) * ConfidenceScale
        /\ ~NotRead(file) /\ s >= 11 =>
             /\ sFiles[i].type = byContent.type
             /\ sFiles[i].role = byContent.role
        /\ NotRead(file) \/ s <= 10 =>
             /\ sFiles[i].type = byPath.type
             /\ sFiles[i].role = byPath.role

\* a finished scan of two utility files with content scores 10 and 11: the
\* first keeps the type of its path, the second takes the type of its content
C15_Witness ==
  /\ Scanned
  /\ \E i, j \in 1..Len(sFiles) :
       /\ sFiles[i].path = "client/src/utils/s10.ts"
       /\ TopScore(OnDisk(i).content) = 10
       /\ classifyByContent(OnDisk(i).content).type = "route"
       /\ sFiles[i].type = "utility"
       /\ sFiles[j].path = "client/src/utils/s11.ts"
       /\ TopScore(OnDisk(j).content) = 11
       /\ sFiles[j].type = "controller"
       /\ sFiles[j].role = "Request/response controller"

\* C16: at every step of a scan the category of every scanned file is the
\* category classifyByPath gives its path, whatever its content, whether or
\* not the content gave it its type and role, and after every later pass.
C16_CategoryFromPathOnly ==
  \A i \in 1..Len(sFiles) :
    /\ sFiles[i].path = OnDisk(i).path
    /\ sFiles[i].category = classifyByPath(OnDisk(i).path).category

\* a finished scan of a frontend utility file to which the content gave the
\* type controller, and of a markdown file to which it gave the type middleware
C16_Witness ==
  /\ Scanned
  /\ \E i, j \in 1..Len(sFiles) :
       /\ sFiles[i].path = "client/src/utils/s11.ts"
       /\ sFiles[i].type = "controller"
       /\ classifyByPath(sFiles[i].path).type # "controller"
       /\ sFiles[i].category = "frontend"
       /\ sFiles[j].path = "docs/notes.md"
       /\ sFiles[j].type = "middleware"
       /\ sFiles[j].category = "documentation"

Categories ==
  {"backend", "frontend", "shared", "infrastructure", "test", "documentation", "other"}

Total(classification) ==
  /\ classification.type # Null
  /\ classification.role # Null
  /\ classification.category \in Categories

\* C17: for the path of every scanned file the path classifier returns a
\* record with a non-empty type, a non-empty role and one of the seven
\* categories, also for a path without extension, without directory or with
\* backslash separators.
C17_ClassificationTotal ==
  \A i \in 1..Len(sFiles) : Total(classifyByPath(sFiles[i].path))

\* the same for the paths that have no directory named like a key every
\* object inherits
C17_TotalButInheritedKeys ==
  \A i \in 1..Len(sFiles) :
    (\A k \in 1..Len(Split(NormalizeSlashes(sFiles[i].path))) :
       Lower(Split(NormalizeSlashes(sFiles[i].path))[k]) \notin InheritedKeys)
    => Total(classifyByPath(sFiles[i].path))

AuthSynonyms ==
  {"login", "register", "signup", "signin", "verify", "forgotpassword", "resetpassword"}

DashboardSynonyms == {"home", "overview"}

\* the hubs of a feature key, the empty set when no feature has the key
HubsUnder(key) ==
  UNION {HubPaths(sFeatures[f].value) :
           f \in {n \in 1..Len(sFeatures) : sFeatures[n].key = key}}

\* the paths of the hubs whose extracted name is one of names
HubsNamed(names) ==
  {sHubs[i].path : i \in {n \in 1..Len(sHubs) : extractFeatureName(sHubs[n].path) \in names}}

\* C18: the hubs named login, register, signup, signin, verify,
\* forgotpassword, resetpassword or auth are all in the one feature auth, the
\* hubs named home, overview or dashboard in the one feature dashboard, each
\* in no other feature, and no feature is keyed by a synonym.
C18_SynonymsMerged ==
  Grouped =>
    /\ HubsNamed(AuthSynonyms \cup {"auth"}) \subseteq HubsUnder("auth")
    /\ HubsNamed(DashboardSynonyms \cup {"dashboard"}) \subseteq HubsUnder("dashboard")
    /\ \A f, g \in 1..Len(sFeatures) : sFeatures[f].key = sFeatures[g].key => f = g
    /\ \A p \in HubsNamed(AuthSynonyms \cup DashboardSynonyms \cup {"auth", "dashboard"}) :
         Cardinality(FeaturesOf(p)) = 1
    /\ \A f \in 1..Len(sFeatures) :
         sFeatures[f].key \notin AuthSynonyms \cup DashboardSynonyms

\* a finished scan in which the login page and the auth controller are in the
\* feature auth and the home page is in the feature dashboard
C18_Witness ==
  /\ Scanned
  /\ {"client/src/pages/Login.tsx", "server/controllers/authController.js"}
       \subseteq HubsUnder("auth")
  /\ "client/src/pages/Home.tsx" \in HubsUnder("dashboard")
  /\ Len(sFeatures) = 2

\* the name extractFeatureName gives the k-th hub of a feature
RawName(feature, k) == extractFeatureName(feature.hubs[k].path)

\* the name after the synonym table, before the singular / plural merge
CanonicalName(feature, k) == detectFeatureRelationships(RawName(feature, k))

\* the number of hubs of a feature with a raw name, with a canonical name
RawCount(feature, name) ==
  Cardinality({k \in 1..Len(feature.hubs) : RawName(feature, k) = name})

CanonicalCount(feature, name) ==
  Cardinality({k \in 1..Len(feature.hubs) : CanonicalName(feature, k) = name})

\* C19: the name of each feature is a most frequent raw name, as
\* extractFeatureName gives it before the synonym table is applied, among
\* the hubs merged into the feature; for hubs named login, login and register
\* it is login.
C19_NameIsMostFrequentRawName ==
  Grouped =>
    \A f \in 1..Len(sFeatures) :
      LET feature == sFeatures[f].value
      IN  \E k \in 1..Len(feature.hubs) :
            /\ feature.name = RawName(feature, k)
            /\ \A n \in 1..Len(feature.hubs) :
                 RawCount(feature, RawName(feature, n)) <= RawCount(feature, feature.name)

\* what the final pass does instead: the name of each feature is the most
\* frequent canonical name (after the synonym table, before the singular /
\* plural merge) among the hubs merged into the feature, the variant seen
\* first among the most frequent ones.
C19_NameIsMostFrequentCanonicalName ==
  Grouped =>
    \A f \in 1..Len(sFeatures) :
      LET feature == sFeatures[f].value
      IN  \E k \in 1..Len(feature.hubs) :
            /\ feature.name = CanonicalName(feature, k)
            /\ \A n \in 1..Len(feature.hubs) :
                 /\ CanonicalCount(feature, CanonicalName(feature, n))
                      <= CanonicalCount(feature, feature.name)
                 /\ (n < k /\ CanonicalName(feature, n) # feature.name)
                      => CanonicalCount(feature, CanonicalName(feature, n))
                           < CanonicalCount(feature, feature.name)

\* a hub no naming pattern matches is in no feature, hubs that are all
\* unnamed give no feature, and the hub pages/dashboard/index.tsx, which the
\* nested-index pattern and the page pattern both match, is named by the first
MissDropsHub ==
  Grouped =>
    /\ \A i \in 1..Len(sHubs) :
         extractFeatureName(sHubs[i].path) = Null => FeaturesOf(sHubs[i].path) = {}
    /\ (\A i \in 1..Len(sHubs) : extractFeatureName(sHubs[i].path) = Null) => sFeatures = <<>>
    /\ \A i \in 1..Len(sHubs) :
         sHubs[i].path = "client/src/pages/dashboard/index.tsx"
           => /\ sHubs[i].path \in HubsUnder("dashboard")
              /\ FeaturesOf(sHubs[i].path) = {ObjIndex(sFeatures, "dashboard")}

\* C20: a hub whose path matches no naming pattern is in no feature and
\* creates none, the first matching pattern names every other hub, and the
\* feature detection completes without error for every set of hubs.
C20_NamingMissNonFatal ==
  /\ MissDropsHub
  /\ sPc # "failed"

(***************************************************************************)
(* Properties of findConnectedFiles.                                       *)
(***************************************************************************)
Returned == tPc = "returned"

\* what findConnectedFiles returns, computed by the recursive definition
ReturnedValue == findConnectedFiles(HubFile, sRelationships, sFiles, maxDepth)

\* the two definitions of the traversal agree on every graph
TraversalsAgree ==
  Returned => /\ tFound.connected = ReturnedValue.files
              /\ tFound.sharedDeps = ReturnedValue.sharedDeps

\* C21: on every import graph, with cycles and self-imports, findConnectedFiles
\* returns; traverse is called at most once with each file and the calls
\* never nest deeper than maxDepth + 2.
C21_TraversalTerminates ==
  /\ <>Returned
  /\ [](/\ NoDuplicates(tCalls)
        /\ Len(tStack) <= maxDepth + 2
        /\ SeqRange(tCalls) \subseteq SeqRange(GraphPaths))

\* the traversal has returned on a graph in which the controller imports
\* itself and the service imports the hub
C21_Witness ==
  /\ Returned
  /\ Relationship(ControllerFile, ControllerFile, "imports") \in SeqRange(sRelationships)
  /\ Relationship(ServiceFile, HubFile, "imports") \in SeqRange(sRelationships)
  /\ {ControllerFile, ServiceFile} \subseteq tFound.visited

\* whether the graph has an import edge
Imports(from, to) ==
  \E k \in 1..Len(sRelationships) :
    sRelationships[k].from = from /\ sRelationships[k].to = to

NotShared(path) == ~isSharedInfrastructure(path)

\* the files at most two import edges from the hub along files that are not
\* shared infrastructure
WithinTwoEdges ==
  {p \in SeqRange(GraphPaths) :
     /\ NotShared(p)
     /\ \/ Imports(HubFile, p)
        \/ \E m \in SeqRange(GraphPaths) :
             NotShared(m) /\ Imports(HubFile, m) /\ Imports(m, p)}

\* C22: every file that is at most 2 import edges from the hub, along files
\* that are not shared infrastructure, is in the files findConnectedFiles
\* returns, whatever the order of the edges and of the import lists.
C22_ClosureComplete ==
  Returned => WithinTwoEdges \subseteq SeqRange(tFound.connected)

Found == SeqRange(tFound.connected) \cup SeqRange(tFound.sharedDeps)

\* C23: a target that matches a shared-infrastructure pattern is recorded in
\* sharedDeps and never traversed, so a file reachable from the hub only
\* through shared-infrastructure files is neither in files nor in sharedDeps.
C23_SharedStopsTraversal ==
  /\ \A p \in SeqRange(tFound.sharedDeps) :
       isSharedInfrastructure(p) /\ p \notin tFound.visited /\ ~SeqIncludes(tCalls, p)
  /\ \A p \in SeqRange(tFound.connected) : p = HubFile \/ NotShared(p)
  /\ \A p \in Found \ {HubFile} :
       \E m \in tFound.visited : NotShared(m) /\ Imports(m, p)
  /\ Returned =>
       \A m \in tFound.visited, p \in SeqRange(GraphPaths) :
         Imports(m, p) /\ isSharedInfrastructure(p) => SeqIncludes(tFound.sharedDeps, p)

C23_Witness ==
  /\ Returned
  /\ Imports(HubFile, UtilsFile)
  /\ Imports(UtilsFile, DbFile)
  /\ SeqIncludes(tFound.sharedDeps, UtilsFile)
  /\ DbFile \notin Found

(***************************************************************************)
(* classifyByPath called on its own, on paths under every root directory   *)
(* the classifier knows and under none, at depths 1 to 5, with the names   *)
(* of start-up files, of tests and of declarations, through api, theme and *)
(* test directories.                                                       *)
(***************************************************************************)
PathRoots ==
  {"", "server/", "backend/", "api-server/", "client/", "frontend/", "web/", "app/",
   "ui/", "src/", "packages/"}
PathDirs ==
  {"", "src/", "api/", "src/api/", "api/v1/", "api/helpers/", "themes/", "styles/",
   "src/theme/", "tests/api/"}
PathNames ==
  {"server.js", "app.ts", "main.tsx", "Main.jsx", "index.js", "index.mjs", "users.js",
   "client.ts", "dark.ts", "dark.css", "users.test.js", "types.d.ts"}
PathUniverse ==
  {root \o dir \o name : root \in PathRoots, dir \in PathDirs, name \in PathNames}

ResolveIdle == rFrom = Null /\ rSpec = Null /\ rPaths = {} /\ rResult = Null /\ rPc = "idle"
ScanIdle ==
  /\ sProject = <<>> /\ sFiles = <<>> /\ sRelationships = <<>>
  /\ sHubs = <<>> /\ sFeatures = <<>> /\ sPc = "idle"

CallInit(inputs) ==
  /\ fInput \in inputs
  /\ fOutput = <<>>
  /\ fPc = "call"
  /\ ResolveIdle
  /\ ScanIdle
  /\ TraverseIdle
  /\ UploadIdle

CallFrame ==
  /\ UNCHANGED resolveVars
  /\ UNCHANGED scanVars
  /\ UNCHANGED traverseVars
  /\ UNCHANGED uploadVars

ClassifyInit == CallInit(PathUniverse)

ClassifyPath ==
  /\ fPc = "call"
  /\ fOutput' = classifyByPath(fInput)
  /\ fPc' = "done"
  /\ UNCHANGED fInput
  /\ CallFrame

ClassifyNext == ClassifyPath

SpecClassify == ClassifyInit /\ [][ClassifyNext]_vars

(***************************************************************************)
(* Properties of classifyByPath.                                           *)
(***************************************************************************)
Classified == fPc = "done"
PathParts == Split(NormalizeSlashes(fInput))
PathName == PathParts[Len(PathParts)]
PathExt == getFileExtension(PathName)

\* the directory segments of the path, the root directory first
PathDirectories == SubSeq(PathParts, 1, Len(PathParts) - 1)

\* the path starts with one of the directories
Under(roots) == \E root \in roots : StartsWith(Lower(fInput), root \o "/")

\* rules 1 to 8 of the classifier, those before the entry-point rule
EarlierRule ==
  \/ isConfigFileName(PathName)
  \/ isTestFileName(PathName)
  \/ \E i \in 1..Len(PathParts) : DIR_ROLES(Lower(PathParts[i])).type = "test"
  \/ PathExt \in {".html", ".htm", ".json", ".yml", ".yaml", ".toml", ".md", ".mdx",
                  ".graphql", ".gql", ".prisma", ".sql"}
  \/ PathExt \in StyleExts
  \/ isDeclarationFile(PathName)

\* server.*, app.*, main.* and index.* with js, ts, mjs; main.* and index.*
\* with tsx and jsx too
StartUpNames ==
  {base \o e : base \in {"server", "app", "main", "index"}, e \in {".js", ".ts", ".mjs"}}
    \cup {base \o e : base \in {"main", "index"}, e \in {".tsx", ".jsx"}}

StartUpFile ==
  /\ Lower(PathName) \in StartUpNames
  /\ Len(PathParts) <= EntryPointDepth
  /\ ~EarlierRule

\* C24: a file named server.*, app.*, main.* or index.* at depth <= 3 that no
\* earlier rule claimed is classified entry-point, with category backend
\* under server/, backend/ or api-server/ and frontend under client/,
\* frontend/, web/, app/, ui/ or src/.
C24_EntryPointRule ==
  Classified /\ StartUpFile =>
    /\ fOutput.type = "entry-point"
    /\ Under({"server", "backend", "api-server"}) => fOutput.category = "backend"
    /\ Under({"client", "frontend", "web", "app", "ui", "src"}) =>
         fOutput.category = "frontend"

\* what the entry-point rule does: the name decides before the root does
C24_NameBeforeRoot ==
  Classified /\ StartUpFile =>
    LET named == StartsWith(Lower(PathName), "server.") \/ StartsWith(Lower(PathName), "app.")
        backend == Under({"server", "backend", "api-server"})
        frontend == Under({"client", "frontend", "web", "app", "ui", "src"})
    IN  IF backend \/ named
          THEN fOutput = Classification("entry-point", "Server entry point", "backend")
        ELSE IF frontend
          THEN fOutput = Classification("entry-point", "App entry point", "frontend")
        ELSE fOutput.type # "entry-point"

\* C25: only a file with a style extension (.css, .scss, .sass, .less) is
\* classified style; a .ts or .js file in a themes/ or styles/ directory is
\* not.
C25_StyleNeedsStyleExtension ==
  Classified /\ fOutput.type = "style" => PathExt \in StyleExts

\* what the directory-role rule does: a code file in a style directory gets
\* the role of the directory, and a style file never reaches the rule
C25_CodeFileTakesStyleRole ==
  Classified /\ fOutput.type = "style" =>
    \/ PathExt \in StyleExts /\ fOutput.role = "Stylesheet"
    \/ PathExt \in CodeExts /\ fOutput.role \in {"Styles", "Theme"}

\* a code file whose deepest directory with a role is api
ApiCodeFile ==
  /\ PathExt \in CodeExts
  /\ \E i \in 1..Len(PathDirectories) :
       /\ Lower(PathDirectories[i]) = "api"
       /\ \A j \in (i + 1)..Len(PathDirectories) : ~HasDirRole(Lower(PathDirectories[j]))

BackendRooted == Under({"server", "backend", "api-server"})
FrontendRooted == Under({"client", "frontend", "web", "app", "ui", "src"})

ApiOverride ==
  IF FrontendRooted /\ ~BackendRooted
    THEN fOutput.type = "api-client" /\ fOutput.category = "frontend"
  ELSE fOutput.type = "route" /\ fOutput.category = "backend"

\* rule 9 claims the file: a start-up name near the root, under a known root
\* or named server.* or app.*
EntryPointRule ==
  /\ Lower(PathName) \in ENTRY_POINT_NAMES
  /\ Len(PathParts) <= EntryPointDepth
  /\ \/ BackendRooted
     \/ FrontendRooted
     \/ StartsWith(Lower(PathName), "server.")
     \/ StartsWith(Lower(PathName), "app.")

\* for a code file whose deepest role-bearing directory is api, classifyByPath
\* returns route/backend under a backend root, api-client/frontend under a
\* frontend root and route/backend under neither (the statement as written)
C26_ApiOverrideAlways == Classified /\ ApiCodeFile => ApiOverride

\* C26: for a code file whose deepest role-bearing directory is api and that
\* no rule before the directory-role rule claims (config and test names, test
\* directories, declarations, entry points), classifyByPath returns
\* route/backend under a backend root, api-client/frontend under a frontend
\* root and route/backend under neither.
C26_ApiOverride ==
  Classified /\ ApiCodeFile /\ ~EarlierRule /\ ~EntryPointRule => ApiOverride

C26_Witness ==
  /\ Classified
  /\ fInput = "packages/api/v1/users.js"
  /\ ApiCodeFile /\ ~EarlierRule /\ ~EntryPointRule
  /\ ~BackendRooted /\ ~FrontendRooted
  /\ fOutput = Classification("route", "API route/handler", "backend")

(***************************************************************************)
(* toPlural and normalizePluralSingular called on their own, on lowercase  *)
(* singular feature names: regular ones, names in -y, -e, -se, -ie, -che,  *)
(* in a sibilant, in -s, -ss and -us, and the irregular ones of the code.  *)
(***************************************************************************)
SingularWords ==
  {"project", "budget", "expense", "course", "movie", "cache", "category", "entry",
   "box", "status", "class", "address", "bus", "key", "day", "task", "user", "order",
   "item", "invoice", "house", "license", "purchase", "response", "database", "message",
   "service", "resource", "page", "image", "file", "note", "quiz", "match", "dish",
   "analysis", "canvas", "news", "person", "child", "data", "media", "tag", "product",
   "payment", "cookie", "api", "auth", "team", "role", "event", "comment", "story",
   "survey", "tax", "branch", "lens", "pie", "release", "niche"}

PluralInit == CallInit(SingularWords)

\* the merge keys groupHubsByFeature computes for a hub named by the word and
\* for a hub named by its plural
MergeKeys ==
  /\ fPc = "call"
  /\ fOutput' = [plural |-> toPlural(fInput),
                 key |-> normalizePluralSingular(fInput),
                 pluralKey |-> normalizePluralSingular(toPlural(fInput))]
  /\ fPc' = "done"
  /\ UNCHANGED fInput
  /\ CallFrame

PluralNext == MergeKeys

SpecPlural == PluralInit /\ [][PluralNext]_vars

(***************************************************************************)
(* Properties of the merge key.                                            *)
(***************************************************************************)
\* C27: for every lowercase singular word w, normalizePluralSingular(toPlural(w))
\* = w and normalizePluralSingular(w) = w, so a hub named w and a hub named by
\* the plural of w get the same merge key.
C27_RoundTrip ==
  fPc = "done" => fOutput.pluralKey = fInput /\ fOutput.key = fInput

\* the words of the universe for which the round trip fails, and what the
\* plural or the word itself is reduced to
C27_FailingWords ==
  fPc = "done" =>
    (fOutput.pluralKey # fInput \/ fOutput.key # fInput) <=>
      <<fInput, fOutput.key, fOutput.pluralKey>> \in
        {<<"expense", "expense", "expens">>, <<"course", "course", "cours">>,
         <<"movie", "movie", "movy">>, <<"cache", "cache", "cach">>,
         <<"house", "house", "hous">>, <<"license", "license", "licens">>,
         <<"purchase", "purchase", "purchas">>, <<"response", "response", "respons">>,
         <<"database", "database", "databas">>, <<"release", "release", "releas">>,
         <<"cookie", "cookie", "cooky">>, <<"niche", "niche", "nich">>,
         <<"analysis", "analysi", "analysis">>, <<"canvas", "canva", "canvas">>,
         <<"news", "new", "news">>, <<"lens", "len", "lens">>}

(***************************************************************************)
(* groupHubsByFeature called on its own on a list of hubs and on a         *)
(* permutation of the list: hubs named project and projects, menu and      *)
(* menus, and task.                                                        *)
(***************************************************************************)
MaxGroupedHubs == 3   \* hubs of the list

GroupUniverse ==
  <<Hub("server/controllers/projectController.js", "controller", <<>>, <<>>),
    Hub("server/routes/projects.js", "route", <<>>, <<>>),
    Hub("client/src/pages/Projects.tsx", "page", <<>>, <<>>),
    Hub("server/controllers/menuController.js", "controller", <<>>, <<>>),
    Hub("server/routes/menus.js", "route", <<>>, <<>>),
    Hub("client/src/api/tasks.ts", "api", <<>>, <<>>)>>

\* the lists of n distinct hubs of the universe
HubLists(n) ==
  {[i \in 1..n |-> GroupUniverse[order[i]]] :
     order \in {o \in [1..n -> 1..Len(GroupUniverse)] :
                  \A i, j \in 1..n : i # j => o[i] # o[j]}}

Permutation(list, order) == [i \in 1..Len(list) |-> list[order[i]]]

Orders(n) == {o \in [1..n -> 1..n] : \A i, j \in 1..n : i # j => o[i] # o[j]}

GroupInit ==
  /\ \E n \in 1..MaxGroupedHubs :
       \E hubs \in HubLists(n), order \in Orders(n) :
         fInput = [hubs |-> hubs, permuted |-> Permutation(hubs, order)]
  /\ fOutput = <<>>
  /\ fPc = "call"
  /\ ResolveIdle
  /\ ScanIdle
  /\ TraverseIdle
  /\ UploadIdle

GroupBoth ==
  /\ fPc = "call"
  /\ fOutput' = [features |-> groupHubsByFeature(fInput.hubs),
                 permuted |-> groupHubsByFeature(fInput.permuted)]
  /\ fPc' = "done"
  /\ UNCHANGED fInput
  /\ CallFrame

GroupNext == GroupBoth

SpecGroup == GroupInit /\ [][GroupNext]_vars

(***************************************************************************)
(* Properties of groupHubsByFeature.                                       *)
(***************************************************************************)
ObjKeys(obj) == {obj[i].key : i \in 1..Len(obj)}

\* the same feature keys, and under each key the same name and the same hubs
SameFeatures(a, b) ==
  /\ ObjKeys(a) = ObjKeys(b)
  /\ \A key \in ObjKeys(a) :
       /\ ObjGet(a, key).name = ObjGet(b, key).name
       /\ SeqRange(ObjGet(a, key).hubs) = SeqRange(ObjGet(b, key).hubs)

\* C28: groupHubsByFeature returns the same feature keys, the same display
\* name for each feature and the same set of hubs in each feature for a list
\* of hubs and for every permutation of it.
C28_OrderIndependent ==
  fPc = "done" => SameFeatures(fOutput.features, fOutput.permuted)

\* without a tie between name variants and without a key ending in -us, the
\* order of the hubs does not matter
C28_IndependentButTiesAndRekey ==
  LET names == {extractFeatureName(fInput.hubs[i].path) : i \in 1..Len(fInput.hubs)}
      count(name) == Cardinality({i \in 1..Len(fInput.hubs) :
                                    extractFeatureName(fInput.hubs[i].path) = name})
  IN  /\ fPc = "done"
      /\ "menus" \notin names
      /\ {"project", "projects"} \subseteq names => count("project") # count("projects")
      => SameFeatures(fOutput.features, fOutput.permuted)

(***************************************************************************)
(* Properties of the features of a finished scan.                          *)
(***************************************************************************)
ScannedPaths == {sFiles[i].path : i \in 1..Len(sFiles)}

UploadSteps ==
  <<"createProject", "extract", "scanning", "scanProject", "analyzing", "storeFiles",
    "storeFeatures", "finalizeProject", "respond">>

UploadInit ==
  /\ uKind \in {"zip", "git"}
  /\ uPc = "validate"
  /\ uStatus = Null
  /\ uWrites = <<>>
  /\ uReturned = {}
  /\ uThrown = Null
  /\ ResolveIdle
  /\ ScanIdle
  /\ TraverseIdle
  /\ CallIdle

UploadFrame ==
  /\ UNCHANGED resolveVars
  /\ UNCHANGED scanVars
  /\ UNCHANGED traverseVars
  /\ UNCHANGED callVars

\* the document's status field is written
WriteStatus(status) ==
  /\ uStatus' = status
  /\ uWrites' = Append(uWrites, status)

KeepStatus == UNCHANGED <<uStatus, uWrites>>

\* the call at step returns and the handler goes on to next
Returns(step, next) ==
  /\ uPc = step
  /\ uPc' = next
  /\ uReturned' = uReturned \cup {step}
  /\ UNCHANGED <<uKind, uThrown>>
  /\ UploadFrame

\* the call at step throws: control goes to the catch block
Throws(step) ==
  /\ uPc = step
  /\ uPc' = "catch"
  /\ uThrown' = step
  /\ KeepStatus
  /\ UNCHANGED <<uKind, uReturned>>
  /\ UploadFrame

\* lines 178-196, 294-310: the request is refused with 400 before any
\* project exists, or accepted
Validate ==
  /\ uPc = "validate"
  /\ \E valid \in BOOLEAN : uPc' = IF valid THEN "createProject" ELSE "sent400"
  /\ KeepStatus
  /\ UNCHANGED <<uKind, uReturned, uThrown>>
  /\ UploadFrame

\* lines 205-210, 316-321 and zip.service.js 87-100
CreateProject ==
  \/ Returns("createProject", "extract") /\ WriteStatus("uploading")
  \/ Throws("createProject")

\* lines 213-215: extractZip, then cleanupZip, which catches its own errors
ExtractZip ==
  /\ uKind = "zip"
  /\ \/ Returns("extract", "scanning") /\ KeepStatus
     \/ Throws("extract")

\* lines 324-325
CloneRepository ==
  /\ uKind = "git"
  /\ \/ Returns("extract", "scanning") /\ KeepStatus
     \/ Throws("extract")

\* lines 218, 328: project.updateOne({status: 'scanning'})
MarkScanning ==
  \/ Returns("scanning", "scanProject") /\ WriteStatus("scanning")
  \/ Throws("scanning")

\* lines 219-222, 329-332
ScanProject ==
  \/ Returns("scanProject", "analyzing") /\ KeepStatus
  \/ Throws("scanProject")

\* lines 225, 335: project.updateOne({status: 'analyzing'})
MarkAnalyzing ==
  \/ Returns("analyzing", "storeFiles") /\ WriteStatus("analyzing")
  \/ Throws("analyzing")

\* lines 226-231, 336-341
StoreFiles ==
  \/ Returns("storeFiles", "storeFeatures") /\ KeepStatus
  \/ Throws("storeFiles")

\* lines 234, 344
StoreFeatures ==
  \/ Returns("storeFeatures", "finalizeProject") /\ KeepStatus
  \/ Throws("storeFeatures")

\* lines 237, 347 and zip.service.js 299-337: one update that sets status
\* 'ready' together with the statistics
FinalizeProject ==
  \/ Returns("finalizeProject", "respond") /\ WriteStatus("ready")
  \/ Throws("finalizeProject")

\* lines 239-267, 349-378: the response is built, the features are logged,
\* the temporary files are removed in the background and the response is
\* sent, all inside the try block
Respond ==
  \/ Returns("respond", "sent200") /\ KeepStatus
  \/ Throws("respond")

\* lines 271-273, 382-384 and zip.service.js 342-353
FailProject ==
  /\ uPc = "catch"
  /\ uPc' = "catchRespond"
  /\ IF "createProject" \in uReturned
       THEN \/ WriteStatus("failed")
            \/ KeepStatus      \* the update rejects; failProject logs and returns
     ELSE KeepStatus
  /\ UNCHANGED <<uKind, uReturned, uThrown>>
  /\ UploadFrame

\* lines 275-282, 386-393: the error response, unless the headers are sent
RespondError ==
  /\ uPc = "catchRespond"
  /\ \E headersSent \in (IF uThrown = "respond" THEN BOOLEAN ELSE {FALSE}),
        notFound \in (IF uKind = "git" THEN BOOLEAN ELSE {FALSE}) :
       uPc' = IF headersSent THEN "returned"
              ELSE IF notFound THEN "sent404" ELSE "sent500"
  /\ KeepStatus
  /\ UNCHANGED <<uKind, uReturned, uThrown>>
  /\ UploadFrame

UploadNext ==
  \/ Validate
  \/ CreateProject
  \/ ExtractZip
  \/ CloneRepository
  \/ MarkScanning
  \/ ScanProject
  \/ MarkAnalyzing
  \/ StoreFiles
  \/ StoreFeatures
  \/ FinalizeProject
  \/ Respond
  \/ FailProject
  \/ RespondError

SpecUpload == UploadInit /\ [][UploadNext]_vars

(***************************************************************************)
(* Properties of an upload request.                                        *)
(***************************************************************************)
RequestOver == uPc \in {"sent200", "sent400", "sent404", "sent500", "returned"}

StatusRank(status) ==
  CASE status = "uploading" -> 1
    [] status = "scanning" -> 2
    [] status = "analyzing" -> 3
    [] status = "ready" -> 4
    [] OTHER -> 0

\* each write is a later status of uploading, scanning, analyzing, ready, or
\* failed
ForwardOnly ==
  \A i \in 1..(Len(uWrites) - 1) :
    \/ uWrites[i + 1] = "failed"
    \/ /\ StatusRank(uWrites[i]) > 0
       /\ StatusRank(uWrites[i + 1]) > StatusRank(uWrites[i])

ReadyAfterStores ==
  SeqIncludes(uWrites, "ready") => {"storeFiles", "storeFeatures"} \subseteq uReturned

FailedWhenStepThrows ==
  /\ RequestOver
  /\ uThrown \in {"extract", "scanProject", "storeFiles", "storeFeatures", "finalizeProject"}
  => uStatus = "failed"

ReadyStays ==
  \A i, j \in 1..Len(uWrites) : i < j /\ uWrites[i] = "ready" => uWrites[j] # "failed"

\* C30: within one upload request the status only moves forward along
\* uploading, scanning, analyzing, ready; when extract/clone, scan, storeFiles,
\* storeFeatures or finalize throws, the status ends as failed; ready is
\* written only after storeFiles and storeFeatures have returned; and once
\* ready has been written the request never changes the status to failed.
C30_UploadLifecycle ==
  /\ ForwardOnly
  /\ ReadyAfterStores
  /\ FailedWhenStepThrows
  /\ ReadyStays

\* the part of the lifecycle that holds
C30_ForwardAndReadyLast == ForwardOnly /\ ReadyAfterStores

\* the status ends as failed when a step throws and the write of failProject
\* succeeds
C30_FailedUnlessWriteFails ==
  /\ RequestOver
  /\ uThrown # Null
  /\ "createProject" \in uReturned
  => uStatus = "failed" \/ ~SeqIncludes(uWrites, "failed")

====
